---- MODULE Spec2Model ----
(***************************************************************************)
(* Model of github.com/tslnc04/tax-calculator: the fluent request Builder  *)
(* (internal/request), the jurisdiction Directory it resolves codes        *)
(* against (internal/jurisdiction) and the upstream calculation engine     *)
(* that Send posts to.                                                     *)
(*                                                                         *)
(* Conventions.  Dollar amounts, hours and rates are float64 in the        *)
(* source and integers here.  A Go string that can carry caller text (an   *)
(* error message) is a sequence of chunks: a chunk is either literal text  *)
(* that holds no '%' or one printf verb as it occurs in the text, so that  *)
(* fmt.Sprintf and fmt.Errorf are modelled by what they do to verbs.  The  *)
(* empty string is <<>>.  A pointer is <<>> (nil) or <<v>> (pointer to v). *)
(***************************************************************************)
EXTENDS Integers, Sequences, FiniteSets, TLC

\* ------------------------------------------------------------------ bounds
MaxCalls == 4

\* ------------------------------------------------------------------ inputs
Amounts == {-1, 0, 1}
Hours == {-1, 0}
Rates == {-1, 0}
Days == {"2024-06-30", "2024-07-01"}
CodeLists == {<<"CA">>, <<"US">>, <<"CA", "ZZ">>, <<"%d">>}

\* ---------------------------------------------------------- text and errors
Verbs == {"%d"}

Missing(verb) == CASE verb = "%d" -> "%!d(MISSING)"

\* fmt.Errorf(format) with no operands: every verb of the format is rendered
\* as %!verb(MISSING), literal text is kept.
Errorf(format) ==
  [i \in 1..Len(format) |-> IF format[i] \in Verbs THEN Missing(format[i]) ELSE format[i]]

\* fmt.Sprintf(text + "%s", s): the operand is copied as it is.
Sprintf(text, s) == <<text, s>>

NilError == [isNil |-> TRUE, msg |-> <<>>]

Error(msg) == [isNil |-> FALSE, msg |-> msg]

\* strconv.FormatFloat(value, 'f', 2, 64) on a whole number.
FormatFloat(value) == ToString(value) \o ".00"

\* --------------------------------------------------------------- request.go
APIURL == "https://paycheck-calculator.adp.com/api/pcc/v2/calculations"

GrossToNetTypeCode == [Code |-> "GROSS_TO_NET"]

StatutoryPolicy2020W4 ==
  [ID |-> "w4Form2020Indicator", Name |-> "w4Form2020Indicator", Value |-> TRUE,
   Type |-> "boolean", TemplateID |-> "e01a6863-4fc7-4c2a-ac8c-f8d896c6fba2"]

MonthlyPayFrequencyCode == [Code |-> "MONTHLY"]

SemiMonthlyPayFrequencyCode == [Code |-> "SEMI_MONTHLY"]

BiWeeklyPayFrequencyCode == [Code |-> "BI_WEEKLY"]

WeeklyPayFrequencyCode == [Code |-> "WEEKLY"]

PayFrequencyCodes ==
  {MonthlyPayFrequencyCode, SemiMonthlyPayFrequencyCode, BiWeeklyPayFrequencyCode,
   WeeklyPayFrequencyCode}

AnnualSalaryFrequency == "salary"

PeriodicSalaryFrequency == "salary_per_period"

\* The two declared frequencies and one string that is neither.
SalaryFrequencies == {AnnualSalaryFrequency, PeriodicSalaryFrequency, "biennial"}

SalaryFrequency_validate(f) ==
  IF f \in {AnnualSalaryFrequency, PeriodicSalaryFrequency}
  THEN NilError
  ELSE Error(Sprintf("invalid salary frequency: ", f))

newSalaryBusinessPolicy(amount, frequency, index) ==
  [ID |-> "salary-" \o ToString(index),
   Alias |-> frequency,
   Label |-> "SALARY",
   Inputs |-> <<[Name |-> "appliedPayPeriodAmount", Value |-> amount, Type |-> "amount"]>>]

newHourlyBusinessPolicy(amount, hours, index) ==
  [ID |-> "hourly-" \o ToString(index),
   Alias |-> "hourly",
   Label |-> "HOURLY",
   Inputs |-> <<[Name |-> "appliedHourlyRate", Value |-> amount, Type |-> "rate"],
                [Name |-> "regularHoursWorked", Value |-> hours, Type |-> "quantity"]>>]

OvertimeEarningType == [Value |-> "OvertimePay", Label |-> "OVERTIME", Type |-> "HUR"]

DoubleTimeEarningType == [Value |-> "DoubletimePay", Label |-> "DOUBLE_TIME", Type |-> "HUR"]

OvertimePayLineName == [Value |-> "Overtime"]

DoubleTimePayLineName == [Value |-> "Double time"]

\* 1.5 and 2, as fractions.
OvertimeClientFactor == [Value |-> [num |-> 3, den |-> 2]]

DoubletimeClientFactor == [Value |-> [num |-> 2, den |-> 1]]

newPayLineUnit(value) == [Value |-> FormatFloat(value)]

newOvertimePayLine(hours, rate) ==
  [EarningType |-> OvertimeEarningType,
   Unit |-> newPayLineUnit(hours),
   Amount |-> [Value |-> rate],
   Name |-> OvertimePayLineName,
   ClientFactor |-> OvertimeClientFactor]

newDoubleTimePayLine(hours, rate) ==
  [EarningType |-> DoubleTimeEarningType,
   Unit |-> newPayLineUnit(hours),
   Amount |-> [Value |-> rate],
   Name |-> DoubleTimePayLineName,
   ClientFactor |-> DoubletimeClientFactor]

\* ------------------------------------------------------------- jurisdiction
FallbackFederalJurisdiction ==
  [JurisdictionID |-> "dea07e6d-9432-4f65-958b-25f09e18117e",
   JurisdictionCode |-> [Name |-> "United States Federal", Code |-> "US"],
   JurisdictionLevelCode |-> [Code |-> "FEDERAL"]]

\* What the versioned bundle holds when it is served: one state descriptor and
\* the federal object literal (whose id differs from the fallback's).
BundleStates == <<[shortName |-> "CA", longName |-> "California", jurisdictionID |-> "id-ca"]>>

BundleFederal ==
  [JurisdictionID |-> "id-us-live",
   JurisdictionCode |-> [Name |-> "United States Federal", Code |-> "US"],
   JurisdictionLevelCode |-> [Code |-> "FEDERAL"]]

\* The jurisdictions a caller hands to WithJurisdictions: a state, the federal one.
StateJurisdiction ==
  [JurisdictionID |-> "id-ca",
   JurisdictionCode |-> [Name |-> "California", Code |-> "CA"],
   JurisdictionLevelCode |-> [Code |-> "STATE"]]

JurisdictionLists == {<<StateJurisdiction>>, <<FallbackFederalJurisdiction>>}

\* How a discovery run ends: "ok", or the stage that fails.
DiscoveryOutcomes == {"ok", "loader", "version", "dynamic", "states", "federal"}

parseStateJurisdictions(matches) ==
  [i \in 1..Len(matches) |->
     [JurisdictionID |-> matches[i].jurisdictionID,
      JurisdictionCode |-> [Name |-> matches[i].longName, Code |-> matches[i].shortName],
      JurisdictionLevelCode |-> [Code |-> "STATE"]]]

\* The map after populateJurisdictionsByCode(jurisdictions) on the map m: each
\* entry is stored under its code, a later entry of the list overwriting an
\* earlier one with the same code.
RECURSIVE populateJurisdictionsByCode(_, _)
populateJurisdictionsByCode(m, jurisdictions) ==
  IF jurisdictions = <<>> THEN m
  ELSE LET j == Head(jurisdictions)
           code == j.JurisdictionCode.Code
       IN populateJurisdictionsByCode(
            [c \in DOMAIN m \cup {code} |-> IF c = code THEN j ELSE m[c]],
            Tail(jurisdictions))

\* LoadJurisdictions that writes the state jurisdictions into the map before
\* it parses the federal one.
LoadJurisdictions_statesFirst(m, outcome) ==
  CASE outcome = "loader" ->
         [err |-> Error(<<"status was not OK getting loader: 503 Service Unavailable">>), byCode |-> m]
    [] outcome = "version" ->
         [err |-> Error(<<"could not find version in loader">>), byCode |-> m]
    [] outcome = "dynamic" ->
         [err |-> Error(<<"status was not OK getting pcc dynamic: 404 Not Found">>), byCode |-> m]
    [] outcome = "states" ->
         [err |-> Error(<<"could not find state jurisdictions in pcc dynamic">>), byCode |-> m]
    [] outcome = "federal" ->
         [err |-> Error(<<"could not find federal jurisdiction in pcc dynamic">>),
          byCode |-> populateJurisdictionsByCode(m, parseStateJurisdictions(BundleStates))]
    [] outcome = "ok" ->
         [err |-> NilError,
          byCode |-> populateJurisdictionsByCode(
                       m, Append(parseStateJurisdictions(BundleStates), BundleFederal))]

\* LoadJurisdictions against a site that behaves as `outcome` says, starting
\* from the map m: the returned error and the map afterwards.
LoadJurisdictions(m, outcome) ==
  CASE outcome = "loader" ->
         [err |-> Error(<<"status was not OK getting loader: 503 Service Unavailable">>), byCode |-> m]
    [] outcome = "version" ->
         [err |-> Error(<<"could not find version in loader">>), byCode |-> m]
    [] outcome = "dynamic" ->
         [err |-> Error(<<"status was not OK getting pcc dynamic: 404 Not Found">>), byCode |-> m]
    [] outcome = "states" ->
         [err |-> Error(<<"could not find state jurisdictions in pcc dynamic">>), byCode |-> m]
    [] outcome = "federal" ->
         [err |-> Error(<<"could not find federal jurisdiction in pcc dynamic">>), byCode |-> m]
    [] outcome = "ok" ->
         [err |-> NilError,
          byCode |-> populateJurisdictionsByCode(
                       m, Append(parseStateJurisdictions(BundleStates), BundleFederal))]

\* GetFederalJurisdiction that knows the fallback only.
GetFederalJurisdiction_fallbackOnly(m) == FallbackFederalJurisdiction

GetFederalJurisdiction(m) ==
  IF Cardinality(DOMAIN m) < 1 THEN FallbackFederalJurisdiction
  ELSE IF "US" \notin DOMAIN m THEN FallbackFederalJurisdiction
  ELSE m["US"]

\* ------------------------------------------------------------------ slices
\* make([]T, n): n zero values.
Make(n, zero) == [i \in 1..n |-> zero]

\* copy(dst[off:], src): copies min(len(dst) - off, len(src)) elements, never
\* growing dst.
Copy(dst, off, src) ==
  [i \in 1..Len(dst) |-> IF i > off /\ i - off <= Len(src) THEN src[i - off] ELSE dst[i]]

ZeroBusinessPolicy == [ID |-> "", Alias |-> "", Label |-> "", Inputs |-> <<>>]

ZeroPayLine ==
  [EarningType |-> [Value |-> "", Label |-> "", Type |-> ""],
   Unit |-> [Value |-> ""],
   Amount |-> [Value |-> 0],
   Name |-> [Value |-> ""],
   ClientFactor |-> [Value |-> [num |-> 0, den |-> 1]]]

\* --------------------------------------------------------- upstream engine
\* What the POST to the engine comes to: a 200 with a well-formed body, a
\* transport error, another status, a body that cannot be read, a body that is
\* not the expected JSON.
UpstreamReplies == {"ok", "neterr", "status", "readerr", "badjson"}

Response == [Net |-> [Amount |-> 4000, CurrencyCode |-> "USD", Label |-> "Net"]]

\* ------------------------------------------------------------------- state
VARIABLES
  builder,              \* the Builder under construction
  JurisdictionsByCode,  \* the process-wide Directory: code -> Jurisdiction
  posted,               \* the requests POSTed to the upstream engine, in order
  lastCall,             \* history: the last call, its arguments and what it returned
  prev,                 \* history: the builder as it was before the last call
  prevPosted,           \* history: `posted` as it was before the last call
  allValid,             \* history: every call so far was an income call with valid arguments
  payFrequencyApplied,  \* history: WithPayFrequency was called on an error-free builder
  payFrequencyCalled,   \* history: WithPayFrequency was called
  calls,                \* history: number of calls made
  handler,              \* the server's RequestHandler: its cache and its limiter
  reqs,                 \* the server's inbound requests, each with the step it is at
  now,                  \* the server's clock
  tool                  \* the offline tool: its command line, its flags and its exit

vars ==
  <<builder, JurisdictionsByCode, posted, lastCall, prev, prevPosted, allValid,
    payFrequencyApplied, payFrequencyCalled, calls, handler, reqs, now, tool>>

\* What only the programs built on the Builder have.
serverVars == <<handler, reqs, now, tool>>

NewBuilder ==
  [URL |-> APIURL,
   payFrequencyCode |-> <<>>,
   jurisdictions |-> <<>>,
   salaries |-> <<>>,
   hourlies |-> <<>>,
   overtime |-> <<>>,
   doubletime |-> <<>>,
   errorMessage |-> <<>>]

validate(b) == IF b.errorMessage # <<>> THEN Error(Errorf(b.errorMessage)) ELSE NilError

Init ==
  /\ builder = NewBuilder
  /\ JurisdictionsByCode = << >>
  /\ posted = <<>>
  /\ lastCall = [op |-> "NewBuilder", args |-> <<>>, ret |-> NilError]
  /\ prev = NewBuilder
  /\ prevPosted = <<>>
  /\ allValid = TRUE
  /\ payFrequencyApplied = FALSE
  /\ payFrequencyCalled = FALSE
  /\ calls = 0
  /\ handler = <<>>
  /\ reqs = <<>>
  /\ now = 0
  /\ tool = <<>>

\* The history every call leaves behind.
Called(op, args, ret, valid) ==
  /\ calls < MaxCalls
  /\ calls' = calls + 1
  /\ lastCall' = [op |-> op, args |-> args, ret |-> ret]
  /\ prev' = builder
  /\ prevPosted' = posted
  /\ UNCHANGED serverVars
  /\ allValid' = (allValid /\ valid)

\* WithSalary without the sticky-error check at its head.
WithSalary_unchecked(amount, frequency) ==
  /\ Called("WithSalary", <<amount, frequency>>, NilError,
            amount >= 0 /\ frequency \in {AnnualSalaryFrequency, PeriodicSalaryFrequency})
  /\ builder' =
       IF amount < 0
         THEN [builder EXCEPT !.errorMessage = <<"salary amount must be non-negative">>]
       ELSE IF ~SalaryFrequency_validate(frequency).isNil
         THEN [builder EXCEPT !.errorMessage = SalaryFrequency_validate(frequency).msg]
       ELSE [builder EXCEPT !.salaries =
               Append(@, newSalaryBusinessPolicy(amount, frequency, Len(builder.salaries) + 1))]
  /\ UNCHANGED <<JurisdictionsByCode, posted, payFrequencyApplied, payFrequencyCalled>>

\* WithSalary that takes a zero amount for a negative one.
WithSalary_positiveOnly(amount, frequency) ==
  /\ Called("WithSalary", <<amount, frequency>>, NilError,
            amount >= 0 /\ frequency \in {AnnualSalaryFrequency, PeriodicSalaryFrequency})
  /\ builder' =
       IF ~validate(builder).isNil THEN builder
       ELSE IF amount <= 0
         THEN [builder EXCEPT !.errorMessage = <<"salary amount must be non-negative">>]
       ELSE IF ~SalaryFrequency_validate(frequency).isNil
         THEN [builder EXCEPT !.errorMessage = SalaryFrequency_validate(frequency).msg]
       ELSE [builder EXCEPT !.salaries =
               Append(@, newSalaryBusinessPolicy(amount, frequency, Len(builder.salaries) + 1))]
  /\ UNCHANGED <<JurisdictionsByCode, posted, payFrequencyApplied, payFrequencyCalled>>

\* WithSalary that numbers its policies from zero.
WithSalary_zeroBased(amount, frequency) ==
  /\ Called("WithSalary", <<amount, frequency>>, NilError,
            amount >= 0 /\ frequency \in {AnnualSalaryFrequency, PeriodicSalaryFrequency})
  /\ builder' =
       IF ~validate(builder).isNil THEN builder
       ELSE IF amount < 0
         THEN [builder EXCEPT !.errorMessage = <<"salary amount must be non-negative">>]
       ELSE IF ~SalaryFrequency_validate(frequency).isNil
         THEN [builder EXCEPT !.errorMessage = SalaryFrequency_validate(frequency).msg]
       ELSE [builder EXCEPT !.salaries =
               Append(@, newSalaryBusinessPolicy(amount, frequency, Len(builder.salaries)))]
  /\ UNCHANGED <<JurisdictionsByCode, posted, payFrequencyApplied, payFrequencyCalled>>

WithSalary(amount, frequency) ==
  /\ Called("WithSalary", <<amount, frequency>>, NilError,
            amount >= 0 /\ frequency \in {AnnualSalaryFrequency, PeriodicSalaryFrequency})
  /\ builder' =
       IF ~validate(builder).isNil THEN builder
       ELSE IF amount < 0
         THEN [builder EXCEPT !.errorMessage = <<"salary amount must be non-negative">>]
       ELSE IF ~SalaryFrequency_validate(frequency).isNil
         THEN [builder EXCEPT !.errorMessage = SalaryFrequency_validate(frequency).msg]
       ELSE [builder EXCEPT !.salaries =
               Append(@, newSalaryBusinessPolicy(amount, frequency, Len(builder.salaries) + 1))]
  /\ UNCHANGED <<JurisdictionsByCode, posted, payFrequencyApplied, payFrequencyCalled>>

\* WithHourly that checks the rate and forgets the hours.
WithHourly_rateOnly(hours, rate) ==
  /\ Called("WithHourly", <<hours, rate>>, NilError, hours >= 0 /\ rate >= 0)
  /\ builder' =
       IF ~validate(builder).isNil THEN builder
       ELSE IF rate < 0
         THEN [builder EXCEPT !.errorMessage = <<"hourly rate must be non-negative">>]
       ELSE [builder EXCEPT !.hourlies =
               Append(@, newHourlyBusinessPolicy(rate, hours, Len(builder.hourlies) + 1))]
  /\ UNCHANGED <<JurisdictionsByCode, posted, payFrequencyApplied, payFrequencyCalled>>

WithHourly(hours, rate) ==
  /\ Called("WithHourly", <<hours, rate>>, NilError, hours >= 0 /\ rate >= 0)
  /\ builder' =
       IF ~validate(builder).isNil THEN builder
       ELSE IF rate < 0
         THEN [builder EXCEPT !.errorMessage = <<"hourly rate must be non-negative">>]
       ELSE IF hours < 0
         THEN [builder EXCEPT !.errorMessage = <<"hourly hours must be non-negative">>]
       ELSE [builder EXCEPT !.hourlies =
               Append(@, newHourlyBusinessPolicy(rate, hours, Len(builder.hourlies) + 1))]
  /\ UNCHANGED <<JurisdictionsByCode, posted, payFrequencyApplied, payFrequencyCalled>>

WithOvertime(hours, rate) ==
  /\ Called("WithOvertime", <<hours, rate>>, NilError, hours >= 0 /\ rate >= 0)
  /\ builder' =
       IF ~validate(builder).isNil THEN builder
       ELSE IF rate < 0
         THEN [builder EXCEPT !.errorMessage = <<"overtime rate must be non-negative">>]
       ELSE IF hours < 0
         THEN [builder EXCEPT !.errorMessage = <<"overtime hours must be non-negative">>]
       ELSE [builder EXCEPT !.overtime = Append(@, newOvertimePayLine(hours, rate))]
  /\ UNCHANGED <<JurisdictionsByCode, posted, payFrequencyApplied, payFrequencyCalled>>

WithDoubleTime(hours, rate) ==
  /\ Called("WithDoubleTime", <<hours, rate>>, NilError, hours >= 0 /\ rate >= 0)
  /\ builder' =
       IF ~validate(builder).isNil THEN builder
       ELSE IF rate < 0
         THEN [builder EXCEPT !.errorMessage = <<"double time rate must be non-negative">>]
       ELSE IF hours < 0
         THEN [builder EXCEPT !.errorMessage = <<"double time hours must be non-negative">>]
       ELSE [builder EXCEPT !.doubletime = Append(@, newDoubleTimePayLine(hours, rate))]
  /\ UNCHANGED <<JurisdictionsByCode, posted, payFrequencyApplied, payFrequencyCalled>>

WithPayFrequency(payFrequencyCode) ==
  /\ Called("WithPayFrequency", <<payFrequencyCode>>, NilError, FALSE)
  /\ builder' =
       IF ~validate(builder).isNil THEN builder
       ELSE [builder EXCEPT !.payFrequencyCode = <<payFrequencyCode>>]
  /\ payFrequencyApplied' = (payFrequencyApplied \/ builder.errorMessage = <<>>)
  /\ payFrequencyCalled' = TRUE
  /\ UNCHANGED <<JurisdictionsByCode, posted>>

WithJurisdictions(jurisdictions) ==
  /\ Called("WithJurisdictions", <<jurisdictions>>, NilError, FALSE)
  /\ builder' =
       IF ~validate(builder).isNil THEN builder
       ELSE [builder EXCEPT !.jurisdictions = @ \o jurisdictions]
  /\ UNCHANGED <<JurisdictionsByCode, posted, payFrequencyApplied, payFrequencyCalled>>

\* The loop of WithJurisdictionsByCode over the codes still to resolve: the
\* jurisdictions found so far, or the first code the map does not hold.
RECURSIVE lookupCodes(_, _, _)
lookupCodes(m, jurisdictionCodes, jurisdictions) ==
  IF jurisdictionCodes = <<>> THEN [ok |-> TRUE, jurisdictions |-> jurisdictions, code |-> ""]
  ELSE IF Head(jurisdictionCodes) \notin DOMAIN m
    THEN [ok |-> FALSE, jurisdictions |-> jurisdictions, code |-> Head(jurisdictionCodes)]
  ELSE lookupCodes(m, Tail(jurisdictionCodes), Append(jurisdictions, m[Head(jurisdictionCodes)]))

\* WithJurisdictionsByCode that appends each jurisdiction as soon as it is found.
WithJurisdictionsByCode_partial(jurisdictionCodes, outcome) ==
  LET load == IF Cardinality(DOMAIN JurisdictionsByCode) < 1
              THEN LoadJurisdictions(JurisdictionsByCode, outcome)
              ELSE [err |-> NilError, byCode |-> JurisdictionsByCode]
      found == lookupCodes(load.byCode, jurisdictionCodes, <<>>)
  IN /\ Called("WithJurisdictionsByCode", <<jurisdictionCodes>>, NilError, FALSE)
     /\ IF ~validate(builder).isNil
        THEN UNCHANGED <<builder, JurisdictionsByCode>>
        ELSE /\ JurisdictionsByCode' = load.byCode
             /\ builder' =
                  IF ~load.err.isNil
                    THEN [builder EXCEPT !.errorMessage = load.err.msg]
                  ELSE IF ~found.ok
                    THEN [builder EXCEPT !.errorMessage =
                            Sprintf("no jurisdiction found for code: ", found.code),
                                         !.jurisdictions = @ \o found.jurisdictions]
                  ELSE [builder EXCEPT !.jurisdictions = @ \o found.jurisdictions]
     /\ UNCHANGED <<posted, payFrequencyApplied, payFrequencyCalled>>

WithJurisdictionsByCode(jurisdictionCodes, outcome) ==
  LET load == IF Cardinality(DOMAIN JurisdictionsByCode) < 1
              THEN LoadJurisdictions(JurisdictionsByCode, outcome)
              ELSE [err |-> NilError, byCode |-> JurisdictionsByCode]
      found == lookupCodes(load.byCode, jurisdictionCodes, <<>>)
  IN /\ Called("WithJurisdictionsByCode", <<jurisdictionCodes>>, NilError, FALSE)
     /\ IF ~validate(builder).isNil
        THEN UNCHANGED <<builder, JurisdictionsByCode>>
        ELSE /\ JurisdictionsByCode' = load.byCode
             /\ builder' =
                  IF ~load.err.isNil
                    THEN [builder EXCEPT !.errorMessage = load.err.msg]
                  ELSE IF ~found.ok
                    THEN [builder EXCEPT !.errorMessage =
                            Sprintf("no jurisdiction found for code: ", found.code)]
                  ELSE [builder EXCEPT !.jurisdictions = @ \o found.jurisdictions]
     /\ UNCHANGED <<posted, payFrequencyApplied, payFrequencyCalled>>

HandleError ==
  /\ Called("HandleError", <<>>,
            IF builder.errorMessage = <<>> THEN NilError ELSE Error(Errorf(builder.errorMessage)),
            FALSE)
  /\ builder' = IF builder.errorMessage = <<>> THEN builder
                ELSE [builder EXCEPT !.errorMessage = <<>>]
  /\ UNCHANGED <<JurisdictionsByCode, posted, payFrequencyApplied, payFrequencyCalled>>

\* buildRequest that appends the federal jurisdiction to the builder's own list.
buildRequest_injectIntoBuilder(b, m, today) ==
  LET payFrequency == IF b.payFrequencyCode = <<>> THEN <<MonthlyPayFrequencyCode>>
                      ELSE b.payFrequencyCode
      copied == <<>> \o b.jurisdictions
      hasFederal == \E i \in 1..Len(copied) : copied[i].JurisdictionCode.Code = "US"
      jurisdictions == IF ~hasFederal THEN Append(copied, GetFederalJurisdiction(m)) ELSE copied
      policies == Copy(Copy(Make(Len(b.salaries), ZeroBusinessPolicy), 0, b.salaries),
                       Len(b.salaries), b.hourlies)
      payLines == Copy(Copy(Make(Len(b.overtime) + Len(b.doubletime), ZeroPayLine), 0, b.overtime),
                       Len(b.overtime), b.doubletime)
  IN [request |->
        [CalculationTypeCode |-> GrossToNetTypeCode,
         StatutoryPolicyInputs |-> <<StatutoryPolicy2020W4>>,
         Jurisdictions |-> [LivedInJurisdictions |-> jurisdictions,
                            WorkedInJurisdictions |-> jurisdictions],
         PayDate |-> today,
         PayFrequencyCode |-> payFrequency[1],
         BusinessPolicies |-> policies,
         AdditionalEarnings |-> [PayLines |-> payLines],
         Deductions |-> <<>>],
      builder |-> [b EXCEPT !.jurisdictions = jurisdictions]]

\* buildRequest that sends the selection as it is.
buildRequest_noFederal(b, m, today) ==
  LET payFrequency == IF b.payFrequencyCode = <<>> THEN <<MonthlyPayFrequencyCode>>
                      ELSE b.payFrequencyCode
      copied == <<>> \o b.jurisdictions
      hasFederal == \E i \in 1..Len(copied) : copied[i].JurisdictionCode.Code = "US"
      jurisdictions == IF hasFederal THEN Append(copied, GetFederalJurisdiction(m)) ELSE copied
      policies == Copy(Copy(Make(Len(b.salaries), ZeroBusinessPolicy), 0, b.salaries),
                       Len(b.salaries), b.hourlies)
      payLines == Copy(Copy(Make(Len(b.overtime) + Len(b.doubletime), ZeroPayLine), 0, b.overtime),
                       Len(b.overtime), b.doubletime)
  IN [request |->
        [CalculationTypeCode |-> GrossToNetTypeCode,
         StatutoryPolicyInputs |-> <<StatutoryPolicy2020W4>>,
         Jurisdictions |-> [LivedInJurisdictions |-> jurisdictions,
                            WorkedInJurisdictions |-> jurisdictions],
         PayDate |-> today,
         PayFrequencyCode |-> payFrequency[1],
         BusinessPolicies |-> policies,
         AdditionalEarnings |-> [PayLines |-> payLines],
         Deductions |-> <<>>],
      builder |-> b]

\* buildRequest whose default pay frequency is weekly.
buildRequest_defaultWeekly(b, m, today) ==
  LET payFrequency == IF b.payFrequencyCode = <<>> THEN <<WeeklyPayFrequencyCode>>
                      ELSE b.payFrequencyCode
      copied == <<>> \o b.jurisdictions
      hasFederal == \E i \in 1..Len(copied) : copied[i].JurisdictionCode.Code = "US"
      jurisdictions == IF ~hasFederal THEN Append(copied, GetFederalJurisdiction(m)) ELSE copied
      policies == Copy(Copy(Make(Len(b.salaries), ZeroBusinessPolicy), 0, b.salaries),
                       Len(b.salaries), b.hourlies)
      payLines == Copy(Copy(Make(Len(b.overtime) + Len(b.doubletime), ZeroPayLine), 0, b.overtime),
                       Len(b.overtime), b.doubletime)
  IN [request |->
        [CalculationTypeCode |-> GrossToNetTypeCode,
         StatutoryPolicyInputs |-> <<StatutoryPolicy2020W4>>,
         Jurisdictions |-> [LivedInJurisdictions |-> jurisdictions,
                            WorkedInJurisdictions |-> jurisdictions],
         PayDate |-> today,
         PayFrequencyCode |-> payFrequency[1],
         BusinessPolicies |-> policies,
         AdditionalEarnings |-> [PayLines |-> payLines],
         Deductions |-> <<>>],
      builder |-> b]

\* buildRequest on the builder b with the Directory m on the day `today`: the
\* request, and the builder as the call leaves it.
\* buildRequest that appends the federal jurisdiction to every selection.
buildRequest_alwaysFederal(b, m, today) ==
  LET payFrequency == IF b.payFrequencyCode = <<>> THEN <<MonthlyPayFrequencyCode>>
                      ELSE b.payFrequencyCode
      copied == <<>> \o b.jurisdictions
      hasFederal == \E i \in 1..Len(copied) : copied[i].JurisdictionCode.Code = "US"
      jurisdictions == Append(copied, GetFederalJurisdiction(m))
      policies == Copy(Copy(Make(Len(b.salaries), ZeroBusinessPolicy), 0, b.salaries),
                       Len(b.salaries), b.hourlies)
      payLines == Copy(Copy(Make(Len(b.overtime) + Len(b.doubletime), ZeroPayLine), 0, b.overtime),
                       Len(b.overtime), b.doubletime)
  IN [request |->
        [CalculationTypeCode |-> GrossToNetTypeCode,
         StatutoryPolicyInputs |-> <<StatutoryPolicy2020W4>>,
         Jurisdictions |-> [LivedInJurisdictions |-> jurisdictions,
                            WorkedInJurisdictions |-> jurisdictions],
         PayDate |-> today,
         PayFrequencyCode |-> payFrequency[1],
         BusinessPolicies |-> policies,
         AdditionalEarnings |-> [PayLines |-> payLines],
         Deductions |-> <<>>],
      builder |-> b]

buildRequest(b, m, today) ==
  LET payFrequency == IF b.payFrequencyCode = <<>> THEN <<MonthlyPayFrequencyCode>>
                      ELSE b.payFrequencyCode
      copied == <<>> \o b.jurisdictions
      hasFederal == \E i \in 1..Len(copied) : copied[i].JurisdictionCode.Code = "US"
      jurisdictions == IF ~hasFederal THEN Append(copied, GetFederalJurisdiction(m)) ELSE copied
      policies == Copy(Copy(Make(Len(b.salaries), ZeroBusinessPolicy), 0, b.salaries),
                       Len(b.salaries), b.hourlies)
      payLines == Copy(Copy(Make(Len(b.overtime) + Len(b.doubletime), ZeroPayLine), 0, b.overtime),
                       Len(b.overtime), b.doubletime)
  IN [request |->
        [CalculationTypeCode |-> GrossToNetTypeCode,
         StatutoryPolicyInputs |-> <<StatutoryPolicy2020W4>>,
         Jurisdictions |-> [LivedInJurisdictions |-> jurisdictions,
                            WorkedInJurisdictions |-> jurisdictions],
         PayDate |-> today,
         PayFrequencyCode |-> payFrequency[1],
         BusinessPolicies |-> policies,
         AdditionalEarnings |-> [PayLines |-> payLines],
         Deductions |-> <<>>],
      builder |-> b]

\* Send when the engine answers with `reply` on the day `today`.
Send(reply, today) ==
  LET err == validate(builder)
      built == buildRequest(builder, JurisdictionsByCode, today)
      ret == IF ~err.isNil THEN [response |-> <<>>, err |-> err]
             ELSE CASE reply = "neterr" ->
                         [response |-> <<>>, err |-> Error(<<"Post: connection refused">>)]
                    [] reply = "status" ->
                         [response |-> <<>>,
                          err |-> Error(<<"status was not OK sending request: 500 Internal Server Error">>)]
                    [] reply = "readerr" ->
                         [response |-> <<>>, err |-> Error(<<"unexpected EOF">>)]
                    [] reply = "badjson" ->
                         [response |-> <<>>, err |-> Error(<<"unexpected end of JSON input">>)]
                    [] reply = "ok" ->
                         [response |-> <<Response>>, err |-> NilError]
  IN /\ Called("Send", <<>>, ret, FALSE)
     /\ IF ~err.isNil
        THEN UNCHANGED <<builder, posted>>
        ELSE /\ builder' = built.builder
             /\ posted' = Append(posted, built.request)
     /\ UNCHANGED <<JurisdictionsByCode, payFrequencyApplied, payFrequencyCalled>>

Next ==
  \/ \E amount \in Amounts, frequency \in SalaryFrequencies : WithSalary(amount, frequency)
  \/ \E hours \in Hours, rate \in Rates : WithHourly(hours, rate)
  \/ \E hours \in Hours, rate \in Rates : WithOvertime(hours, rate)
  \/ \E hours \in Hours, rate \in Rates : WithDoubleTime(hours, rate)
  \/ \E payFrequencyCode \in PayFrequencyCodes : WithPayFrequency(payFrequencyCode)
  \/ \E jurisdictions \in JurisdictionLists : WithJurisdictions(jurisdictions)
  \/ \E jurisdictionCodes \in CodeLists, outcome \in DiscoveryOutcomes :
       WithJurisdictionsByCode(jurisdictionCodes, outcome)
  \/ HandleError
  \/ \E reply \in UpstreamReplies, today \in Days : Send(reply, today)

Spec == Init /\ [][Next]_vars

\* ---------------------------------------------------------------- server.go
\* The server reads the salary as a float64. It is counted here in thousandths
\* of a dollar, so that the two-decimal rounding of the cache key is visible.
Thousandth == 1000

\* The salary texts an inbound query may carry; "" is an absent parameter.
SalaryTexts == {"", "abc", "-1", "0", "1", "1.004"}

\* The pay-frequency texts an inbound query may carry.
PayFrequencyTexts == {"", "monthly", "semi-monthly", "biweekly", "bi-weekly", "weekly"}

\* The state texts an inbound query may carry.
StateTexts == {"", "CA", "ZZ", "semi-"}

\* The queries whose parsing and keys are compared with each other.
Queries ==
  [salary : {"", "abc", "1", "1.004"}, payFrequency : PayFrequencyTexts, state : {"", "semi-"}]

\* strconv.ParseFloat(s, 64) on the salary texts above.
ParseFloat(s) ==
  CASE s = "-1" -> [value |-> -Thousandth, err |-> NilError]
    [] s = "0" -> [value |-> 0, err |-> NilError]
    [] s = "1" -> [value |-> Thousandth, err |-> NilError]
    [] s = "1.004" -> [value |-> Thousandth + 4, err |-> NilError]
    [] OTHER -> [value |-> 0,
                 err |-> Error(<<"strconv.ParseFloat: parsing ", s, ": invalid syntax">>)]

\* The two digits of a number of cents below one hundred.
TwoDigits(n) == IF n < 10 THEN "0" \o ToString(n) ELSE ToString(n)

\* fmt's %.2f on a value in thousandths: rounded to the nearest cent (no value
\* used here lies half way between two cents).
Fmt2f(value) ==
  LET magnitude == IF value < 0 THEN -value ELSE value
      cents == (magnitude + 5) \div 10
  IN (IF value < 0 THEN "-" ELSE "")
       \o ToString(cents \div 100) \o "." \o TwoDigits(cents % 100)

\* PayFrequencyCode.Set that leaves the zero value on an unrecognised text.
PayFrequencyCode_Set_keepZero(value) ==
  [pfc |-> CASE value = "monthly" -> MonthlyPayFrequencyCode
             [] value = "semi-monthly" -> SemiMonthlyPayFrequencyCode
             [] value = "biweekly" -> BiWeeklyPayFrequencyCode
             [] value = "weekly" -> WeeklyPayFrequencyCode
             [] OTHER -> [Code |-> ""],
   err |-> NilError]

\* PayFrequencyCode.Set on a zero PayFrequencyCode: the code it leaves and the
\* error it returns.
PayFrequencyCode_Set(value) ==
  [pfc |-> CASE value = "monthly" -> MonthlyPayFrequencyCode
             [] value = "semi-monthly" -> SemiMonthlyPayFrequencyCode
             [] value = "biweekly" -> BiWeeklyPayFrequencyCode
             [] value = "weekly" -> WeeklyPayFrequencyCode
             [] OTHER -> MonthlyPayFrequencyCode,
   err |-> NilError]

\* PayFrequencyCode.String that knows one label for the two weekly codes.
PayFrequencyCode_String_oneWeekly(pfc) ==
  CASE pfc = MonthlyPayFrequencyCode -> "monthly"
    [] pfc = SemiMonthlyPayFrequencyCode -> "semi-monthly"
    [] pfc = BiWeeklyPayFrequencyCode -> "weekly"
    [] pfc = WeeklyPayFrequencyCode -> "weekly"
    [] OTHER -> ""

PayFrequencyCode_String(pfc) ==
  CASE pfc = MonthlyPayFrequencyCode -> "monthly"
    [] pfc = SemiMonthlyPayFrequencyCode -> "semi-monthly"
    [] pfc = BiWeeklyPayFrequencyCode -> "bi-weekly"
    [] pfc = WeeklyPayFrequencyCode -> "weekly"
    [] OTHER -> ""

\* parseRequestParams on the query of an inbound URL: the parameters, or the
\* error. The result of Set is discarded.
parseRequestParams(query) ==
  IF query.salary = ""
    THEN [params |-> <<>>, err |-> Error(<<"salary must be specified">>)]
  ELSE IF ~ParseFloat(query.salary).err.isNil
    THEN [params |-> <<>>,
          err |-> Error(<<"salary is not a valid float: ">> \o ParseFloat(query.salary).err.msg)]
  ELSE [params |-> <<[salary |-> ParseFloat(query.salary).value,
                      payFrequency |-> PayFrequencyCode_Set(query.payFrequency).pfc,
                      state |-> query.state]>>,
        err |-> NilError]

getCacheKey(params) ==
  Fmt2f(params.salary) \o params.state \o PayFrequencyCode_String(params.payFrequency)

\* The builder after WithSalary(amount, frequency) on the builder b.
Builder_WithSalary(b, amount, frequency) ==
  IF ~validate(b).isNil THEN b
  ELSE IF amount < 0
    THEN [b EXCEPT !.errorMessage = <<"salary amount must be non-negative">>]
  ELSE IF ~SalaryFrequency_validate(frequency).isNil
    THEN [b EXCEPT !.errorMessage = SalaryFrequency_validate(frequency).msg]
  ELSE [b EXCEPT !.salaries = Append(@, newSalaryBusinessPolicy(amount, frequency, Len(b.salaries) + 1))]

\* The builder after WithPayFrequency(payFrequencyCode) on the builder b.
Builder_WithPayFrequency(b, payFrequencyCode) ==
  IF ~validate(b).isNil THEN b
  ELSE [b EXCEPT !.payFrequencyCode = <<payFrequencyCode>>]

\* requestParams.buildRequest that takes the salary for one of a pay period.
params_buildRequest_periodic(params) ==
  Builder_WithPayFrequency(
    Builder_WithSalary(NewBuilder, params.salary, PeriodicSalaryFrequency),
    params.payFrequency)

\* The first two calls of requestParams.buildRequest.
params_buildRequest(params) ==
  Builder_WithPayFrequency(
    Builder_WithSalary(NewBuilder, params.salary, AnnualSalaryFrequency),
    params.payFrequency)

\* ------------------------------------------------------- cache and limiter
\* The LRU cache is a sequence of entries, the most recently used first. An
\* entry remembers which request stored it.
CacheSizes == {1, 2}

\* cache.Get that finds nothing.
Cache_Get_miss(cache, key) == [ok |-> FALSE, entry |-> <<>>, cache |-> cache]

\* cache.Get that leaves the order of the entries as it is.
Cache_Get_noRefresh(cache, key) ==
  LET at == {i \in 1..Len(cache.items) : cache.items[i].key = key}
  IN IF at = {} THEN [ok |-> FALSE, entry |-> <<>>, cache |-> cache]
     ELSE LET i == CHOOSE i \in at : TRUE
          IN [ok |-> TRUE, entry |-> <<cache.items[i]>>, cache |-> cache]

\* cache.Get(key): whether the key is cached, its entry, and the cache with
\* that entry moved to the front.
Cache_Get(cache, key) ==
  LET at == {i \in 1..Len(cache.items) : cache.items[i].key = key}
  IN IF at = {} THEN [ok |-> FALSE, entry |-> <<>>, cache |-> cache]
     ELSE LET i == CHOOSE i \in at : TRUE
          IN [ok |-> TRUE,
              entry |-> <<cache.items[i]>>,
              cache |-> [cache EXCEPT !.items =
                           <<cache.items[i]>> \o SubSeq(@, 1, i - 1) \o SubSeq(@, i + 1, Len(@))]]

\* cache.Add that evicts the most recently used entry.
Cache_Add_evictNewest(cache, entry) ==
  LET at == {i \in 1..Len(cache.items) : cache.items[i].key = entry.key}
  IN IF at # {}
       THEN LET i == CHOOSE i \in at : TRUE
            IN [cache EXCEPT !.items =
                  <<entry>> \o SubSeq(@, 1, i - 1) \o SubSeq(@, i + 1, Len(@))]
     ELSE IF Len(cache.items) >= cache.size
       THEN [cache EXCEPT !.items = <<entry>> \o Tail(@)]
     ELSE [cache EXCEPT !.items = <<entry>> \o @]

\* cache.Add that never evicts.
Cache_Add_unbounded(cache, entry) ==
  LET at == {i \in 1..Len(cache.items) : cache.items[i].key = entry.key}
  IN IF at # {}
       THEN LET i == CHOOSE i \in at : TRUE
            IN [cache EXCEPT !.items =
                  <<entry>> \o SubSeq(@, 1, i - 1) \o SubSeq(@, i + 1, Len(@))]
     ELSE [cache EXCEPT !.items = <<entry>> \o @]

\* cache.Add that keeps the entry it already holds for the key.
Cache_Add_keepFirst(cache, entry) ==
  LET at == {i \in 1..Len(cache.items) : cache.items[i].key = entry.key}
  IN IF at # {} THEN cache
     ELSE IF Len(cache.items) >= cache.size
       THEN [cache EXCEPT !.items = <<entry>> \o SubSeq(@, 1, Len(@) - 1)]
     ELSE [cache EXCEPT !.items = <<entry>> \o @]

\* cache.Add(key, value): a cached key is updated and moved to the front; a
\* new key is put in front, and the entry at the back is evicted when the
\* cache is over its size.
Cache_Add(cache, entry) ==
  LET at == {i \in 1..Len(cache.items) : cache.items[i].key = entry.key}
  IN IF at # {}
       THEN LET i == CHOOSE i \in at : TRUE
            IN [cache EXCEPT !.items =
                  <<entry>> \o SubSeq(@, 1, i - 1) \o SubSeq(@, i + 1, Len(@))]
     ELSE IF Len(cache.items) >= cache.size
       THEN [cache EXCEPT !.items = <<entry>> \o SubSeq(@, 1, Len(@) - 1)]
     ELSE [cache EXCEPT !.items = <<entry>> \o @]

\* The interval of the limiter, in ticks of the clock.
RateLimit == 2

\* A limiter that spaces its tokens two intervals apart.
Limiter_reserve_twoIntervals(limiter, t) ==
  IF limiter.every <= 0 \/ limiter.last = <<>> THEN t
  ELSE IF limiter.last[1] + 2 * limiter.every > t THEN limiter.last[1] + 2 * limiter.every
  ELSE t

\* The reservation limiter.Wait makes at time t (burst 1, one token every
\* `every`): the time at which its token is there. A limiter of no positive
\* interval has no limit.
Limiter_reserve(limiter, t) ==
  IF limiter.every <= 0 \/ limiter.last = <<>> THEN t
  ELSE IF limiter.last[1] + limiter.every > t THEN limiter.last[1] + limiter.every
  ELSE t

\* NewRequestHandler(cacheSize, rateLimit): the handler, or the error of a
\* cache of no positive size.
NewRequestHandler(cacheSize, rateLimit) ==
  IF cacheSize <= 0
    THEN [handler |-> <<>>, err |-> Error(<<"must provide a positive size">>)]
  ELSE [handler |-> <<[cache |-> [size |-> cacheSize, items |-> <<>>],
                       limiter |-> [every |-> rateLimit, last |-> <<>>],
                       fatal |-> FALSE]>>,
        err |-> NilError]

\* -------------------------------------------------------- the server's flows
\* One inbound request is one flow. Its steps are the places where it touches
\* what the flows share: the cache, the limiter, the clock, the Directory and
\* the network.
NumRequests == 4

Requests == 1..NumRequests

\* The requests that are served at the same time.
NumClients == 2

Clients == 1..NumClients

MaxTime == 4

NoRequest ==
  [pc |-> "new", query |-> <<>>, params |-> <<>>, cacheKey |-> "", status |-> 0,
   servedBy |-> 0, waits |-> 0, posts |-> 0, loads |-> 0, slot |-> 0, postedAt |-> 0,
   builder |-> <<>>, pending |-> <<>>, request |-> <<>>, err |-> NilError,
   afterFailure |-> FALSE]

\* The queries, discovery outcomes and engine replies the flows are run with.
ServedQueries ==
  {[salary |-> s, payFrequency |-> "", state |-> ""] : s \in {"", "abc", "-1", "1"}}
    \cup {[salary |-> "1", payFrequency |-> "", state |-> st] : st \in {"CA", "US", "ZZ"}}
    \cup {[salary |-> "1", payFrequency |-> "weekly", state |-> ""],
          [salary |-> "0", payFrequency |-> "biweekly", state |-> ""],
          [salary |-> "-1", payFrequency |-> "", state |-> "CA"]}

ServedOutcomes == {"ok", "loader"}

ServedReplies == {"ok", "status"}

InitServer ==
  /\ builder = NewBuilder
  /\ JurisdictionsByCode = << >>
  /\ posted = <<>>
  /\ lastCall = [op |-> "NewBuilder", args |-> <<>>, ret |-> NilError]
  /\ prev = NewBuilder
  /\ prevPosted = <<>>
  /\ allValid = TRUE
  /\ payFrequencyApplied = FALSE
  /\ payFrequencyCalled = FALSE
  /\ calls = 0
  /\ \E cacheSize \in CacheSizes : handler = NewRequestHandler(cacheSize, RateLimit).handler[1]
  /\ reqs = [r \in Requests |-> NoRequest]
  /\ now = 0
  /\ tool = <<>>

\* What no flow of the server touches.
builderVars ==
  <<builder, posted, lastCall, prev, prevPosted, allValid, payFrequencyApplied,
    payFrequencyCalled, calls, tool>>

\* A flow takes a step only while the process runs.
Running(r, pc) == ~handler.fatal /\ reqs[r].pc = pc

\* Another flow is in the middle of writing the Directory.
WritingBeside(r) == \E q \in Requests \ {r} : reqs[q].pc = "populate"

\* The clock.
Tick ==
  /\ now < MaxTime
  /\ now' = now + 1
  /\ UNCHANGED <<handler, reqs, JurisdictionsByCode, builderVars>>

\* ServeHTTP that answers 500 to a query that does not parse.
ServeHTTP_serverError(r, query) ==
  LET parsed == parseRequestParams(query)
  IN /\ Running(r, "new")
     /\ \A q \in Requests : q < r => reqs[q].pc # "new"
     /\ reqs' = [reqs EXCEPT ![r] =
                   IF ~parsed.err.isNil
                     THEN [@ EXCEPT !.pc = "done", !.query = <<query>>, !.status = 500,
                                    !.err = parsed.err]
                   ELSE [@ EXCEPT !.pc = "get", !.query = <<query>>, !.params = parsed.params]]
     /\ UNCHANGED <<handler, now, JurisdictionsByCode, builderVars>>

\* ServeHTTP up to the call of retrieveOrRequest: the query is parsed, and a
\* query that does not parse is answered 400. Requests are numbered as they
\* arrive.
ServeHTTP(r, query) ==
  LET parsed == parseRequestParams(query)
  IN /\ Running(r, "new")
     /\ \A q \in Requests : q < r => reqs[q].pc # "new"
     /\ reqs' = [reqs EXCEPT ![r] =
                   IF ~parsed.err.isNil
                     THEN [@ EXCEPT !.pc = "done", !.query = <<query>>, !.status = 400,
                                    !.err = parsed.err]
                   ELSE [@ EXCEPT !.pc = "get", !.query = <<query>>, !.params = parsed.params]]
     /\ UNCHANGED <<handler, now, JurisdictionsByCode, builderVars>>

\* retrieveOrRequest that builds the builder right after a miss and goes to
\* the limiter only with a builder that holds no error.
CacheGet_validateFirst(r) ==
  LET cacheKey == getCacheKey(reqs[r].params[1])
      got == Cache_Get(handler.cache, cacheKey)
      b == params_buildRequest(reqs[r].params[1])
  IN /\ Running(r, "get")
     /\ handler' = [handler EXCEPT !.cache = got.cache]
     /\ reqs' = [reqs EXCEPT ![r] =
                   IF got.ok
                     THEN [@ EXCEPT !.pc = "done", !.cacheKey = cacheKey, !.status = 200,
                                    !.servedBy = got.entry[1].by]
                   ELSE IF ~validate(b).isNil
                     THEN [@ EXCEPT !.pc = "send", !.cacheKey = cacheKey, !.builder = b]
                   ELSE [@ EXCEPT !.pc = "reserve", !.cacheKey = cacheKey]]
     /\ UNCHANGED <<now, JurisdictionsByCode, builderVars>>

\* retrieveOrRequest, lines 145-152: the key is derived and looked up; a hit
\* is returned and answered 200.
CacheGet(r) ==
  LET cacheKey == getCacheKey(reqs[r].params[1])
      got == Cache_Get(handler.cache, cacheKey)
  IN /\ Running(r, "get")
     /\ handler' = [handler EXCEPT !.cache = got.cache]
     /\ reqs' = [reqs EXCEPT ![r] =
                   IF got.ok
                     THEN [@ EXCEPT !.pc = "done", !.cacheKey = cacheKey, !.status = 200,
                                    !.servedBy = got.entry[1].by]
                   ELSE [@ EXCEPT !.pc = "reserve", !.cacheKey = cacheKey]]
     /\ UNCHANGED <<now, JurisdictionsByCode, builderVars>>

\* limiter.Wait, first half: the flow reserves its token.
LimiterReserve(r) ==
  LET slot == Limiter_reserve(handler.limiter, now)
  IN /\ Running(r, "reserve")
     /\ handler' = [handler EXCEPT !.limiter.last = <<slot>>]
     /\ reqs' = [reqs EXCEPT ![r] = [@ EXCEPT !.pc = "wait", !.slot = slot]]
     /\ UNCHANGED <<now, JurisdictionsByCode, builderVars>>

\* The discovery of the flow r has failed.
DiscoveryFailed(r) ==
  /\ reqs[r].loads > 0
  /\ \E outcome \in DiscoveryOutcomes \ {"ok"} :
       reqs[r].builder.errorMessage = LoadJurisdictions(<< >>, outcome).err.msg

\* The second half of limiter.Wait that runs discovery for every state,
\* whatever the Directory holds.
LimiterWait_alwaysLoad(r) ==
  LET params == reqs[r].params[1]
      b == params_buildRequest(params)
      load == params.state # "" /\ validate(b).isNil
  IN /\ Running(r, "wait")
     /\ now >= reqs[r].slot
     /\ reqs' = [reqs EXCEPT ![r] =
                   [@ EXCEPT !.waits = @ + 1,
                             !.builder = b,
                             !.afterFailure = load /\ \E q \in Requests : DiscoveryFailed(q),
                             !.pc = IF ~load THEN "send" ELSE "load"]]
     /\ UNCHANGED <<handler, now, JurisdictionsByCode, builderVars>>

\* limiter.Wait, second half: it returns once the time of the token has come.
\* Then params.buildRequest builds the builder, and WithJurisdictionsByCode,
\* when a state is given to an error-free builder, reads the size of the
\* Directory and runs discovery when it is empty. The flow remembers whether
\* the discovery of another flow had failed by then.
LimiterWait(r) ==
  LET params == reqs[r].params[1]
      b == params_buildRequest(params)
      load == /\ params.state # ""
              /\ validate(b).isNil
              /\ Cardinality(DOMAIN JurisdictionsByCode) < 1
  IN /\ Running(r, "wait")
     /\ now >= reqs[r].slot
     /\ reqs' = [reqs EXCEPT ![r] =
                   [@ EXCEPT !.waits = @ + 1,
                             !.builder = b,
                             !.afterFailure = load /\ \E q \in Requests : DiscoveryFailed(q),
                             !.pc = IF params.state = "" \/ ~validate(b).isNil THEN "send"
                                    ELSE IF load THEN "load"
                                    ELSE "lookup"]]
     /\ UNCHANGED <<handler, now, JurisdictionsByCode, builderVars>>

\* LoadJurisdictions that goes on without an error when a fetch fails.
Discover_swallow(r, outcome) ==
  LET load == LoadJurisdictions(<< >>, outcome)
  IN /\ Running(r, "load")
     /\ reqs' = [reqs EXCEPT ![r] =
                   IF ~load.err.isNil
                     THEN [@ EXCEPT !.pc = "send", !.loads = @ + 1]
                   ELSE [@ EXCEPT !.pc = "populate", !.loads = @ + 1,
                                  !.pending = Append(parseStateJurisdictions(BundleStates),
                                                     BundleFederal)]]
     /\ UNCHANGED <<handler, now, JurisdictionsByCode, builderVars>>

\* LoadJurisdictions up to populateJurisdictionsByCode: the loader and the
\* bundle are fetched and parsed.
Discover(r, outcome) ==
  LET load == LoadJurisdictions(<< >>, outcome)
  IN /\ Running(r, "load")
     /\ reqs' = [reqs EXCEPT ![r] =
                   IF ~load.err.isNil
                     THEN [@ EXCEPT !.pc = "send", !.loads = @ + 1,
                                    !.builder.errorMessage = load.err.msg]
                   ELSE [@ EXCEPT !.pc = "populate", !.loads = @ + 1,
                                  !.pending = Append(parseStateJurisdictions(BundleStates),
                                                     BundleFederal)]]
     /\ UNCHANGED <<handler, now, JurisdictionsByCode, builderVars>>

\* One turn of the loop of populateJurisdictionsByCode: one entry is written
\* to the Directory. The map has no lock: when another flow is in the middle
\* of its own writes, the runtime may stop the process on the concurrent
\* write, or the write may go through.
Populate(r, detected) ==
  /\ Running(r, "populate")
  /\ detected => WritingBeside(r)
  /\ IF detected
     THEN /\ handler' = [handler EXCEPT !.fatal = TRUE]
          /\ UNCHANGED <<reqs, JurisdictionsByCode>>
     ELSE /\ JurisdictionsByCode' =
               populateJurisdictionsByCode(JurisdictionsByCode, <<Head(reqs[r].pending)>>)
          /\ reqs' = [reqs EXCEPT ![r] =
                        [@ EXCEPT !.pending = Tail(@),
                                  !.pc = IF Tail(reqs[r].pending) = <<>> THEN "lookup"
                                         ELSE "populate"]]
          /\ UNCHANGED handler
  /\ UNCHANGED <<now, builderVars>>

\* The loop of WithJurisdictionsByCode over the one code of the request. A
\* read of the map while another flow writes it may stop the process too.
Lookup(r, detected) ==
  LET found == lookupCodes(JurisdictionsByCode, <<reqs[r].params[1].state>>, <<>>)
  IN /\ Running(r, "lookup")
     /\ detected => WritingBeside(r)
     /\ IF detected
        THEN /\ handler' = [handler EXCEPT !.fatal = TRUE]
             /\ UNCHANGED reqs
        ELSE /\ reqs' = [reqs EXCEPT ![r] =
                           IF ~found.ok
                             THEN [@ EXCEPT !.pc = "send",
                                            !.builder.errorMessage =
                                              Sprintf("no jurisdiction found for code: ", found.code)]
                           ELSE [@ EXCEPT !.pc = "send",
                                          !.builder.jurisdictions = @ \o found.jurisdictions]]
             /\ UNCHANGED handler
     /\ UNCHANGED <<now, JurisdictionsByCode, builderVars>>

\* The error Builder.Send returns when the engine answers with `reply`.
SendError(reply) ==
  CASE reply = "neterr" -> Error(<<"Post: connection refused">>)
    [] reply = "status" ->
         Error(<<"status was not OK sending request: 500 Internal Server Error">>)
    [] reply = "readerr" -> Error(<<"unexpected EOF">>)
    [] reply = "badjson" -> Error(<<"unexpected end of JSON input">>)
    [] reply = "ok" -> NilError

\* Builder.Send up to the POST: a builder with an error returns it and the
\* request is answered 500; otherwise the request is built on the day `today`
\* and sent.
Post(r, today) ==
  /\ Running(r, "send")
  /\ reqs' = [reqs EXCEPT ![r] =
                IF ~validate(reqs[r].builder).isNil
                  THEN [@ EXCEPT !.pc = "done", !.status = 500, !.err = validate(reqs[r].builder)]
                ELSE [@ EXCEPT !.pc = "posted", !.posts = @ + 1, !.postedAt = now,
                               !.request =
                                 <<buildRequest(reqs[r].builder, JurisdictionsByCode, today).request>>]]
  /\ UNCHANGED <<handler, now, JurisdictionsByCode, builderVars>>

\* The rest of retrieveOrRequest that stores whatever Send returned.
CacheAdd_always(r, reply) ==
  /\ Running(r, "posted")
  /\ handler' = [handler EXCEPT !.cache =
                   Cache_Add(@, [key |-> reqs[r].cacheKey, value |-> Response, by |-> r])]
  /\ reqs' = [reqs EXCEPT ![r] =
                [@ EXCEPT !.pc = "done", !.status = IF reply # "ok" THEN 500 ELSE 200,
                          !.servedBy = IF reply # "ok" THEN 0 ELSE r,
                          !.request = <<>>, !.err = SendError(reply)]]
  /\ UNCHANGED <<now, JurisdictionsByCode, builderVars>>

\* The rest of retrieveOrRequest that sends once more when the engine failed.
CacheAdd_retry(r, reply) ==
  /\ Running(r, "posted")
  /\ IF reply # "ok"
     THEN /\ reqs' = [reqs EXCEPT ![r] =
                        IF reqs[r].posts < 2 THEN [@ EXCEPT !.pc = "send", !.request = <<>>]
                        ELSE [@ EXCEPT !.pc = "done", !.status = 500, !.request = <<>>,
                                       !.err = SendError(reply)]]
          /\ UNCHANGED handler
     ELSE /\ handler' = [handler EXCEPT !.cache =
                           Cache_Add(@, [key |-> reqs[r].cacheKey, value |-> Response, by |-> r])]
          /\ reqs' = [reqs EXCEPT ![r] =
                        [@ EXCEPT !.pc = "done", !.status = 200, !.servedBy = r, !.request = <<>>]]
  /\ UNCHANGED <<now, JurisdictionsByCode, builderVars>>

\* The rest of Builder.Send and of retrieveOrRequest: the engine answers; a
\* failure is answered 500, a success is stored under the key and answered
\* 200.
CacheAdd(r, reply) ==
  /\ Running(r, "posted")
  /\ IF reply # "ok"
     THEN /\ reqs' = [reqs EXCEPT ![r] =
                        [@ EXCEPT !.pc = "done", !.status = 500, !.request = <<>>,
                                  !.err = SendError(reply)]]
          /\ UNCHANGED handler
     ELSE /\ handler' = [handler EXCEPT !.cache =
                           Cache_Add(@, [key |-> reqs[r].cacheKey, value |-> Response, by |-> r])]
          /\ reqs' = [reqs EXCEPT ![r] =
                        [@ EXCEPT !.pc = "done", !.status = 200, !.servedBy = r, !.request = <<>>]]
  /\ UNCHANGED <<now, JurisdictionsByCode, builderVars>>

NextServer ==
  \/ Tick
  \/ \E r \in Clients, query \in ServedQueries : ServeHTTP(r, query)
  \/ \E r \in Clients : CacheGet(r)
  \/ \E r \in Clients : LimiterReserve(r)
  \/ \E r \in Clients : LimiterWait(r)
  \/ \E r \in Clients, outcome \in ServedOutcomes : Discover(r, outcome)
  \/ \E r \in Clients, detected \in BOOLEAN : Populate(r, detected)
  \/ \E r \in Clients, detected \in BOOLEAN : Lookup(r, detected)
  \/ \E r \in Clients, today \in Days : Post(r, today)
  \/ \E r \in Clients, reply \in ServedReplies : CacheAdd(r, reply)

SpecServer == InitServer /\ [][NextServer]_vars

\* The parsing and the key of every query: requests arrive and are looked up
\* in the empty cache.
NextKeys ==
  \/ \E r \in Clients, query \in Queries : ServeHTTP(r, query)
  \/ \E r \in Clients : CacheGet(r)

SpecKeys == InitServer /\ [][NextKeys]_vars

\* The cache under requests that come one after the other, each when the one
\* before it has been answered.
CachedQueries ==
  {[salary |-> "1", payFrequency |-> pf, state |-> ""] : pf \in {"", "weekly", "biweekly"}}

NextCache ==
  \/ Tick
  \/ \E r \in Requests, query \in CachedQueries :
       /\ \A q \in Requests : q < r => reqs[q].pc = "done"
       /\ ServeHTTP(r, query)
  \/ \E r \in Requests : CacheGet(r)
  \/ \E r \in Requests : LimiterReserve(r)
  \/ \E r \in Requests : LimiterWait(r)
  \/ \E r \in Requests, today \in Days : Post(r, today)
  \/ \E r \in Requests, reply \in ServedReplies : CacheAdd(r, reply)

SpecCache == InitServer /\ [][NextCache]_vars

\* The limiter under requests for one key that come together: every one of
\* them may be on its way before any has been answered.
NumWaiters == 3

Waiters == 1..NumWaiters

LimitedQueries == {[salary |-> "1", payFrequency |-> "", state |-> ""]}

LimitedDays == {"2024-06-30"}

NextLimiter ==
  \/ Tick
  \/ \E r \in Waiters, query \in LimitedQueries : ServeHTTP(r, query)
  \/ \E r \in Waiters : CacheGet(r)
  \/ \E r \in Waiters : LimiterReserve(r)
  \/ \E r \in Waiters : LimiterWait(r)
  \/ \E r \in Waiters, today \in LimitedDays : Post(r, today)
  \/ \E r \in Waiters, reply \in ServedReplies : CacheAdd(r, reply)

SpecLimiter == InitServer /\ [][NextLimiter]_vars

\* Time goes on while a request is blocked in limiter.Wait, also beyond the
\* time up to which requests arrive.
Elapse ==
  /\ \E r \in Requests : reqs[r].pc = "wait" /\ reqs[r].slot > now
  /\ now' = now + 1
  /\ UNCHANGED <<handler, reqs, JurisdictionsByCode, builderVars>>

NextLimiterFair ==
  \/ NextLimiter
  \/ Elapse

\* The scheduler is fair to every flow that can take a step, the clock goes
\* on, and every call to the engine returns.
FairLimiter ==
  /\ WF_vars(Elapse)
  /\ \A r \in Waiters :
       /\ WF_vars(CacheGet(r))
       /\ WF_vars(LimiterReserve(r))
       /\ WF_vars(LimiterWait(r))
       /\ WF_vars(\E today \in LimitedDays : Post(r, today))
       /\ WF_vars(\E reply \in ServedReplies : CacheAdd(r, reply))

SpecLimiterFair == InitServer /\ [][NextLimiterFair]_vars /\ FairLimiter

\* ------------------------------------------------------ cmd/taxcalc/main.go
\* The offline tool runs once: it parses its command line, builds one request
\* with the Builder, sends it and exits.

\* The zero PayFrequencyCode, which the variable payFrequency holds until the
\* flag package calls Set on it.
ZeroPayFrequencyCode == [Code |-> ""]

\* strings.ToUpper on the state texts of the command lines below.
ToUpper(s) ==
  CASE s = "ca" -> "CA"
    [] s = "zz" -> "ZZ"
    [] OTHER -> s

\* The command lines: -h given or not, the arguments after the flags, the
\* value of -p when it is given, and the value of -s ("" when it is not).
CommandLines ==
  [help : BOOLEAN,
   args : {<<>>, <<"abc">>, <<"1">>, <<"1", "1">>},
   payFrequency : {<<>>} \cup {<<text>> : text \in PayFrequencyTexts},
   state : {"", "ca", "CA", "zz"}]

NoTool ==
  [pc |-> "start", cmd |-> <<>>, help |-> FALSE, state |-> "",
   payFrequency |-> ZeroPayFrequencyCode, exit |-> <<>>, out |-> "", err |-> NilError]

InitTool ==
  /\ builder = NewBuilder
  /\ JurisdictionsByCode = << >>
  /\ posted = <<>>
  /\ lastCall = [op |-> "NewBuilder", args |-> <<>>, ret |-> NilError]
  /\ prev = NewBuilder
  /\ prevPosted = <<>>
  /\ allValid = TRUE
  /\ payFrequencyApplied = FALSE
  /\ payFrequencyCalled = FALSE
  /\ calls = 0
  /\ handler = <<>>
  /\ reqs = <<>>
  /\ now = 0
  /\ tool = NoTool

\* What the tool's steps leave alone.
toolUnchanged ==
  <<lastCall, prev, prevPosted, allValid, payFrequencyApplied, payFrequencyCalled, calls,
    handler, reqs, now>>

\* flag.Parse on the command line: a flag that is given is set from its
\* value, a flag that is not given keeps what its variable held.
flag_Parse(cmd) ==
  /\ tool.pc = "start"
  /\ tool' = [tool EXCEPT
                !.pc = "parsed",
                !.cmd = cmd,
                !.help = cmd.help,
                !.state = cmd.state,
                !.payFrequency = IF cmd.payFrequency = <<>> THEN @
                                 ELSE PayFrequencyCode_Set(cmd.payFrequency[1]).pfc]
  /\ UNCHANGED <<builder, JurisdictionsByCode, posted, toolUnchanged>>

\* main from the help flag to the builder with its salary and pay frequency.
main_build ==
  /\ tool.pc = "parsed"
  /\ IF tool.help
       THEN /\ tool' = [tool EXCEPT !.pc = "exit", !.exit = <<0>>, !.out = "usage"]
            /\ UNCHANGED builder
     ELSE IF Len(tool.cmd.args) # 1
       THEN /\ tool' = [tool EXCEPT !.pc = "exit", !.exit = <<2>>, !.out = "usage",
                                    !.err = Error(<<"salary must be specified">>)]
            /\ UNCHANGED builder
     ELSE IF ~ParseFloat(tool.cmd.args[1]).err.isNil
       THEN /\ tool' = [tool EXCEPT !.pc = "exit", !.exit = <<2>>,
                                    !.err = Error(<<"failed to parse salary: ">>
                                                    \o ParseFloat(tool.cmd.args[1]).err.msg)]
            /\ UNCHANGED builder
     ELSE /\ tool' = [tool EXCEPT !.pc = "built"]
          /\ builder' =
               Builder_WithPayFrequency(
                 Builder_WithSalary(NewBuilder, ParseFloat(tool.cmd.args[1]).value,
                                    AnnualSalaryFrequency),
                 tool.payFrequency)
  /\ UNCHANGED <<JurisdictionsByCode, posted, toolUnchanged>>

\* The builder and the Directory after WithJurisdictionsByCode(jurisdictionCodes)
\* on the builder b, in a process with one flow.
Builder_WithJurisdictionsByCode(b, m, jurisdictionCodes, outcome) ==
  LET load == IF Cardinality(DOMAIN m) < 1 THEN LoadJurisdictions(m, outcome)
              ELSE [err |-> NilError, byCode |-> m]
      found == lookupCodes(load.byCode, jurisdictionCodes, <<>>)
  IN IF ~validate(b).isNil THEN [builder |-> b, byCode |-> m]
     ELSE IF ~load.err.isNil
       THEN [builder |-> [b EXCEPT !.errorMessage = load.err.msg], byCode |-> load.byCode]
     ELSE IF ~found.ok
       THEN [builder |-> [b EXCEPT !.errorMessage =
                            Sprintf("no jurisdiction found for code: ", found.code)],
             byCode |-> load.byCode]
     ELSE [builder |-> [b EXCEPT !.jurisdictions = @ \o found.jurisdictions],
           byCode |-> load.byCode]

\* main's state flag: upper-cased and looked up when it is given.
main_state(outcome) ==
  /\ tool.pc = "built"
  /\ IF tool.state # ""
       THEN LET called == Builder_WithJurisdictionsByCode(
                            builder, JurisdictionsByCode, <<ToUpper(tool.state)>>, outcome)
            IN /\ tool' = [tool EXCEPT !.pc = "send", !.state = ToUpper(tool.state)]
               /\ builder' = called.builder
               /\ JurisdictionsByCode' = called.byCode
     ELSE /\ tool' = [tool EXCEPT !.pc = "send"]
          /\ UNCHANGED <<builder, JurisdictionsByCode>>
  /\ UNCHANGED <<posted, toolUnchanged>>

\* main from builder.Send to the exit, when the engine answers with `reply`
\* on the day `today`.
main_send(reply, today) ==
  LET built == buildRequest(builder, JurisdictionsByCode, today)
  IN /\ tool.pc = "send"
     /\ IF ~validate(builder).isNil
          THEN /\ tool' = [tool EXCEPT !.pc = "exit", !.exit = <<2>>,
                                       !.err = Error(<<"failed to send request: ">>
                                                       \o validate(builder).msg)]
               /\ UNCHANGED <<builder, posted>>
        ELSE /\ builder' = built.builder
             /\ posted' = Append(posted, built.request)
             /\ tool' =
                  IF ~SendError(reply).isNil
                    THEN [tool EXCEPT !.pc = "exit", !.exit = <<2>>,
                                      !.err = Error(<<"failed to send request: ">>
                                                      \o SendError(reply).msg)]
                  ELSE [tool EXCEPT !.pc = "exit", !.exit = <<0>>,
                                    !.out = FormatFloat(Response.Net.Amount) \o "\n"]
     /\ UNCHANGED <<JurisdictionsByCode, toolUnchanged>>

NextTool ==
  \/ \E cmd \in CommandLines : flag_Parse(cmd)
  \/ main_build
  \/ \E outcome \in DiscoveryOutcomes : main_state(outcome)
  \/ \E reply \in UpstreamReplies, today \in Days : main_send(reply, today)

SpecTool == InitTool /\ [][NextTool]_vars

\* ------------------------------------------------------------------ claims
MutatingCalls ==
  {"WithSalary", "WithHourly", "WithOvertime", "WithDoubleTime", "WithJurisdictions",
   "WithJurisdictionsByCode", "WithPayFrequency"}

HoursRateCalls == {"WithHourly", "WithOvertime", "WithDoubleTime"}

\* The last call was made with an argument its operation rejects.
RejectedArguments ==
  \/ /\ lastCall.op = "WithSalary"
     /\ \/ lastCall.args[1] < 0
        \/ lastCall.args[2] \notin {AnnualSalaryFrequency, PeriodicSalaryFrequency}
  \/ /\ lastCall.op \in HoursRateCalls
     /\ \/ lastCall.args[1] < 0
        \/ lastCall.args[2] < 0

\* The list s is the list t with exactly one entry appended.
OneAppended(s, t) == Len(s) = Len(t) + 1 /\ SubSeq(s, 1, Len(t)) = t

\* C1: a mutating call made while the builder's error is set changes nothing
\* of the builder: the five lists, the pay frequency and the error are as
\* they were before the call, whatever the call and its arguments.
C1_StickyErrorNoOp ==
  (lastCall.op \in MutatingCalls /\ prev.errorMessage # <<>>) => builder = prev

\* A WithSalary call with valid arguments, made after a rejected call on a
\* builder that already held an hourly entry.
C1_Witness ==
  /\ lastCall.op = "WithSalary"
  /\ lastCall.args = <<1, AnnualSalaryFrequency>>
  /\ prev.errorMessage # <<>>
  /\ Len(prev.hourlies) = 1
  /\ builder = prev

\* C2: a WithSalary, WithHourly, WithOvertime or WithDoubleTime call on an
\* error-free builder with a negative amount, hours or rate, or a WithSalary
\* call with a frequency that is neither annual nor periodic, sets the error
\* and changes nothing else: every list and the pay frequency are as before.
C2_RejectedCallOnlySetsError ==
  (prev.errorMessage = <<>> /\ RejectedArguments) =>
    /\ builder.errorMessage # <<>>
    /\ builder = [prev EXCEPT !.errorMessage = builder.errorMessage]

\* WithHourly with negative hours and a valid rate, on a builder that holds a
\* salary and an hourly entry.
C2_Witness ==
  /\ lastCall.op = "WithHourly"
  /\ lastCall.args = <<-1, 0>>
  /\ prev.errorMessage = <<>>
  /\ Len(prev.salaries) = 1
  /\ Len(prev.hourlies) = 1
  /\ builder.errorMessage # <<>>

\* C3: as long as every call made on a new builder is a WithSalary (annual or
\* periodic), WithHourly, WithOvertime or WithDoubleTime call with non-negative
\* arguments, the error is never set and the last call appended exactly one
\* entry to its own list and left the other lists alone.
C3_ValidCallsAccumulate ==
  (allValid /\ calls > 0) =>
    /\ builder.errorMessage = <<>>
    /\ lastCall.op = "WithSalary" =>
         /\ OneAppended(builder.salaries, prev.salaries)
         /\ builder = [prev EXCEPT !.salaries = builder.salaries]
    /\ lastCall.op = "WithHourly" =>
         /\ OneAppended(builder.hourlies, prev.hourlies)
         /\ builder = [prev EXCEPT !.hourlies = builder.hourlies]
    /\ lastCall.op = "WithOvertime" =>
         /\ OneAppended(builder.overtime, prev.overtime)
         /\ builder = [prev EXCEPT !.overtime = builder.overtime]
    /\ lastCall.op = "WithDoubleTime" =>
         /\ OneAppended(builder.doubletime, prev.doubletime)
         /\ builder = [prev EXCEPT !.doubletime = builder.doubletime]

\* Four valid calls, one of each kind, the salary of amount zero.
C3_Witness ==
  /\ allValid
  /\ calls = 4
  /\ Len(builder.salaries) = 1
  /\ builder.salaries[1].Inputs[1].Value = 0
  /\ Len(builder.hourlies) = 1
  /\ Len(builder.overtime) = 1
  /\ Len(builder.doubletime) = 1

\* The last call was a Send that got past validation and handed its request
\* to the upstream engine.
Sent == lastCall.op = "Send" /\ prev.errorMessage = <<>>

LastPosted == posted[Len(posted)]

\* The Directory holds at least one jurisdiction.
Populated == Cardinality(DOMAIN JurisdictionsByCode) >= 1

\* The codes of the last WithJurisdictionsByCode call, and the positions of
\* those the Directory does not hold.
LastCodes == lastCall.args[1]

AbsentAt == {i \in 1..Len(LastCodes) : LastCodes[i] \notin DOMAIN JurisdictionsByCode}

FirstAbsent == LastCodes[CHOOSE i \in AbsentAt : \A k \in AbsentAt : i <= k]

\* C4 as stated: WithJurisdictionsByCode with a code that a populated Directory
\* does not hold sets the error to "no jurisdiction found for code: <code>" and
\* adds none of the codes of the call, whatever the state of the builder.
C4_Stated ==
  (lastCall.op = "WithJurisdictionsByCode" /\ Populated /\ AbsentAt # {}) =>
    /\ builder.errorMessage = <<"no jurisdiction found for code: ", FirstAbsent>>
    /\ builder.jurisdictions = prev.jurisdictions

\* C4 (amended): WithJurisdictionsByCode called on an error-free builder with a
\* code that a populated Directory does not hold sets the error to "no
\* jurisdiction found for code: <code>" and changes nothing else of the builder:
\* none of the codes is added, the valid ones before the unknown one included.
C4_UnknownCodeAddsNothing ==
  (lastCall.op = "WithJurisdictionsByCode" /\ prev.errorMessage = <<>> /\ Populated /\ AbsentAt # {}) =>
    /\ builder.errorMessage = <<"no jurisdiction found for code: ", FirstAbsent>>
    /\ builder.jurisdictions = prev.jurisdictions
    /\ builder = [prev EXCEPT !.errorMessage = builder.errorMessage]

\* A call with a known code followed by an unknown one, on an error-free builder
\* that holds a jurisdiction already.
C4_Witness ==
  /\ lastCall.op = "WithJurisdictionsByCode"
  /\ LastCodes = <<"CA", "ZZ">>
  /\ prev.errorMessage = <<>>
  /\ Len(prev.jurisdictions) = 1
  /\ Populated
  /\ builder.errorMessage = <<"no jurisdiction found for code: ", "ZZ">>

\* C5: Send on a builder whose error is set returns that error, returns no
\* response and hands nothing to the upstream engine; and no request that was
\* handed to the engine carries a negative salary amount.
C5_SendReturnsStoredError ==
  /\ (lastCall.op = "Send" /\ prev.errorMessage # <<>>) =>
       /\ lastCall.ret.err = Error(prev.errorMessage)
       /\ lastCall.ret.response = <<>>
       /\ posted = prevPosted
  /\ \A i \in 1..Len(posted) : \A k \in 1..Len(posted[i].BusinessPolicies) :
       posted[i].BusinessPolicies[k].Inputs[1].Value >= 0

\* The part of C5 that is about the upstream engine alone.
C5_NoUpstreamCall ==
  /\ (lastCall.op = "Send" /\ prev.errorMessage # <<>>) =>
       /\ ~lastCall.ret.err.isNil
       /\ lastCall.ret.response = <<>>
       /\ posted = prevPosted
  /\ \A i \in 1..Len(posted) : \A k \in 1..Len(posted[i].BusinessPolicies) :
       posted[i].BusinessPolicies[k].Inputs[1].Value >= 0

\* The request r with its pay date blanked.
WithoutPayDate(r) == [r EXCEPT !.PayDate = ""]

HasFederal(jurisdictions) ==
  \E k \in 1..Len(jurisdictions) : jurisdictions[k].JurisdictionCode.Code = "US"

\* C7: every request handed to the upstream engine has a jurisdiction of code
\* US in its lived-in list and in its worked-in list.
C7_FederalAlwaysPresent ==
  \A i \in 1..Len(posted) :
    /\ HasFederal(posted[i].Jurisdictions.LivedInJurisdictions)
    /\ HasFederal(posted[i].Jurisdictions.WorkedInJurisdictions)

\* Two requests sent: the first from an empty selection, the second from a
\* selection of one state.
C7_Witness ==
  /\ Sent
  /\ Len(posted) = 2
  /\ Len(posted[1].Jurisdictions.LivedInJurisdictions) = 1
  /\ prev.jurisdictions = <<StateJurisdiction>>
  /\ Len(LastPosted.Jurisdictions.WorkedInJurisdictions) = 2

\* C8: the business policies of a request handed to the upstream engine are the
\* builder's salaries followed by its hourlies, each in insertion order.
C8_PoliciesAreSalariesThenHourlies ==
  Sent => LastPosted.BusinessPolicies = prev.salaries \o prev.hourlies

\* What the code sends instead: the salaries alone.
C8_SalariesOnly ==
  Sent => LastPosted.BusinessPolicies = prev.salaries

\* C9: the ids of the salary policies are salary-1 .. salary-n in list order
\* and those of the hourly policies hourly-1 .. hourly-m.
C9_SequentialIds ==
  /\ \A i \in 1..Len(builder.salaries) : builder.salaries[i].ID = "salary-" \o ToString(i)
  /\ \A i \in 1..Len(builder.hourlies) : builder.hourlies[i].ID = "hourly-" \o ToString(i)

\* Two salaries and an hourly accumulated, then a call that was rejected.
C9_Witness ==
  /\ calls = 4
  /\ Len(builder.salaries) = 2
  /\ Len(builder.hourlies) = 1
  /\ prev.errorMessage = <<>>
  /\ builder.errorMessage # <<>>

\* C10: a request sent from a builder on which WithPayFrequency never took
\* effect carries the pay-frequency code MONTHLY.
C10_DefaultMonthly ==
  (Sent /\ ~payFrequencyApplied) => LastPosted.PayFrequencyCode.Code = "MONTHLY"

\* A Send after a WithPayFrequency call that was a no-op under the sticky error.
C10_Witness ==
  /\ Sent
  /\ payFrequencyCalled
  /\ ~payFrequencyApplied
  /\ LastPosted.PayFrequencyCode.Code = "MONTHLY"

\* ------------------------------------------------------ claims on the server
\* The requests whose query has been parsed into parameters.
Parsed == {r \in Requests : reqs[r].params # <<>>}

\* The requests whose cache key has been derived.
Keyed == {r \in Requests : reqs[r].cacheKey # ""}

\* The salary texts that are floats.
FloatTexts == {"-1", "0", "1", "1.004"}

\* The code a pay-frequency text stands for.
CodeOfText(text) ==
  IF text = "monthly" THEN "MONTHLY"
  ELSE IF text = "semi-monthly" THEN "SEMI_MONTHLY"
  ELSE IF text = "biweekly" THEN "BI_WEEKLY"
  ELSE IF text = "weekly" THEN "WEEKLY"
  ELSE "MONTHLY"

\* C11: PayFrequencyCode.Set returns no error for any text, and a request
\* whose salary is a float is never answered 400 whatever its pay-frequency
\* text is: it is parsed, with the code of a recognised text and with MONTHLY
\* for every other text, the empty one included.
C11_PayFrequencyNeverRejects ==
  /\ \A text \in PayFrequencyTexts : PayFrequencyCode_Set(text).err.isNil
  /\ \A r \in Requests :
       (reqs[r].query # <<>> /\ reqs[r].query[1].salary \in FloatTexts)
         => /\ reqs[r].status # 400
            /\ r \in Parsed
            /\ reqs[r].params[1].payFrequency.Code = CodeOfText(reqs[r].query[1].payFrequency)

\* A request with a text that is no pay frequency has been parsed as MONTHLY,
\* and one with the empty text too.
C11_Witness ==
  \E r1, r2 \in Parsed :
    /\ reqs[r1].query[1].payFrequency = "bi-weekly"
    /\ reqs[r1].params[1].payFrequency = MonthlyPayFrequencyCode
    /\ reqs[r2].query[1].payFrequency = ""
    /\ reqs[r2].params[1].payFrequency = MonthlyPayFrequencyCode

\* A salary in thousandths rounded to the nearest cent.
Cents(salary) == IF salary < 0 THEN -((5 - salary) \div 10) ELSE (salary + 5) \div 10

\* The label of a code.
LabelOfCode(code) ==
  IF code = "MONTHLY" THEN "monthly"
  ELSE IF code = "SEMI_MONTHLY" THEN "semi-monthly"
  ELSE IF code = "BI_WEEKLY" THEN "bi-weekly"
  ELSE IF code = "WEEKLY" THEN "weekly"
  ELSE ""

\* What the key of a request is derived from.
Triple(r) ==
  <<Cents(reqs[r].params[1].salary), reqs[r].params[1].state,
    LabelOfCode(reqs[r].params[1].payFrequency.Code)>>

\* C12: two requests with the same salary to the cent, the same state and the
\* same pay-frequency label have the same cache key, and two requests with
\* the same salary and state but different pay-frequency codes have different
\* keys.
C12_KeyOfTriple ==
  \A r1, r2 \in Keyed :
    /\ Triple(r1) = Triple(r2) => reqs[r1].cacheKey = reqs[r2].cacheKey
    /\ (/\ reqs[r1].params[1].salary = reqs[r2].params[1].salary
        /\ reqs[r1].params[1].state = reqs[r2].params[1].state
        /\ reqs[r1].params[1].payFrequency # reqs[r2].params[1].payFrequency)
         => reqs[r1].cacheKey # reqs[r2].cacheKey

\* Two requests with the same salary and state, one bi-weekly and one weekly,
\* have their keys.
C12_Witness ==
  \E r1, r2 \in Keyed :
    /\ reqs[r1].params[1].salary = reqs[r2].params[1].salary
    /\ reqs[r1].params[1].state = reqs[r2].params[1].state
    /\ reqs[r1].params[1].payFrequency = BiWeeklyPayFrequencyCode
    /\ reqs[r2].params[1].payFrequency = WeeklyPayFrequencyCode
    /\ reqs[r1].cacheKey # reqs[r2].cacheKey

\* C13: two parsed requests that differ in salary, in state or in pay
\* frequency never have the same cache key.
C13_NoCollision ==
  \A r1, r2 \in Keyed :
    reqs[r1].params[1] # reqs[r2].params[1] => reqs[r1].cacheKey # reqs[r2].cacheKey

\* The collisions there are come from the rounding of the salary and from the
\* state running into the label: requests of the same salary to the cent and
\* the same text of state and label together have the same key, and no others.
C13_CollisionsOnlyOfJoinedText ==
  \A r1, r2 \in Keyed :
    reqs[r1].cacheKey = reqs[r2].cacheKey
      <=> /\ Triple(r1)[1] = Triple(r2)[1]
          /\ Triple(r1)[2] \o Triple(r1)[3] = Triple(r2)[2] \o Triple(r2)[3]

\* The keys the cache holds.
Keys(cache) == {cache.items[i].key : i \in 1..Len(cache.items)}

\* The entry the cache holds for a key.
EntryOf(cache, key) ==
  cache.items[CHOOSE i \in 1..Len(cache.items) : cache.items[i].key = key]

\* The requests that were answered from the cache.
Hits == {r \in Requests : reqs[r].status = 200 /\ reqs[r].servedBy # r}

\* The requests that were answered with what the engine returned to them.
Stored == {r \in Requests : reqs[r].status = 200 /\ reqs[r].servedBy = r}

\* C14: a request that looks up its key while the cache holds it is answered
\* 200 at once with the cached entry, has waited on the limiter zero times and
\* called the engine zero times, and leaves the limiter as it was; a request
\* that has been answered takes no further step.
C14_HitBypassesLimiter ==
  [][\A r \in Requests :
       /\ (reqs[r].pc = "get" /\ reqs'[r].pc # "get"
             /\ getCacheKey(reqs[r].params[1]) \in Keys(handler.cache))
            => /\ reqs'[r].pc = "done"
               /\ reqs'[r].status = 200
               /\ reqs'[r].servedBy = EntryOf(handler.cache, getCacheKey(reqs[r].params[1])).by
               /\ reqs'[r].waits = 0
               /\ reqs'[r].posts = 0
               /\ handler'.limiter = handler.limiter
       /\ reqs[r].pc = "done" => reqs'[r] = reqs[r]]_vars

\* A request has been answered from the entry another request stored, while
\* that entry is still cached.
C14_Witness ==
  \E r \in Hits :
    /\ reqs[r].servedBy \in Stored
    /\ reqs[r].cacheKey \in Keys(handler.cache)
    /\ reqs[r].waits = 0
    /\ reqs[r].posts = 0

\* C15: a request calls the engine only after its one limiter wait and not
\* before the time of its token; it is answered with the engine's response
\* only after that call, in the step that stores the response in front of
\* the cache; every cache entry was stored by a request whose Send succeeded,
\* a request answered 500 has stored nothing, and a request is answered from
\* the cache only with an entry of a request that succeeded.
C15_MissOrder ==
  /\ [](\A r \in Requests :
          /\ reqs[r].posts > 0 => (reqs[r].waits = 1 /\ reqs[r].postedAt >= reqs[r].slot)
          /\ r \in Stored => reqs[r].posts = 1
          /\ r \in Hits => reqs[r].servedBy \in Stored
          /\ reqs[r].status = 500 =>
               \A i \in 1..Len(handler.cache.items) : handler.cache.items[i].by # r)
  /\ [](\A i \in 1..Len(handler.cache.items) :
          /\ handler.cache.items[i].by \in Stored
          /\ handler.cache.items[i].key = reqs[handler.cache.items[i].by].cacheKey)
  /\ [][\A r \in Requests :
          /\ (reqs[r].status = 0 /\ reqs'[r].status = 200 /\ reqs'[r].servedBy = r)
               => /\ reqs[r].pc = "posted"
                  /\ handler'.cache.items[1] =
                       [key |-> reqs[r].cacheKey, value |-> Response, by |-> r]
          /\ (reqs[r].status = 0 /\ reqs'[r].status = 500)
               => Keys(handler'.cache) = Keys(handler.cache)]_vars

\* A request whose call to the engine failed has been answered 500, and a
\* later request for the same key has gone to the engine again and succeeded.
C15_Witness ==
  \E r1, r2 \in Requests :
    /\ r1 < r2
    /\ reqs[r1].status = 500
    /\ reqs[r1].posts = 1
    /\ reqs[r2].cacheKey = reqs[r1].cacheKey
    /\ r2 \in Stored
    /\ reqs[r2].postedAt > reqs[r1].postedAt

\* In SpecCache the requests come one after the other, so a key was last used
\* by the highest request that was answered 200 with it, from the cache or
\* from the engine.
LastUse(key) ==
  LET users == {r \in Requests : reqs[r].status = 200 /\ reqs[r].cacheKey = key}
  IN CHOOSE r \in users : \A q \in users : q <= r

\* The least recently used key of the cache.
LeastRecentlyUsed ==
  CHOOSE key \in Keys(handler.cache) :
    \A other \in Keys(handler.cache) : LastUse(key) <= LastUse(other)

\* The first request and the `size` requests after it have each stored a key
\* of their own, and no request after them has arrived.
FilledInOrder ==
  /\ handler.cache.size + 1 <= NumRequests
  /\ \A r \in 1..(handler.cache.size + 1) : r \in Stored
  /\ \A r1, r2 \in 1..(handler.cache.size + 1) :
       r1 # r2 => reqs[r1].cacheKey # reqs[r2].cacheKey
  /\ \A r \in (handler.cache.size + 2)..NumRequests : reqs[r].pc = "new"

\* C16: the step that stores a new key in a cache that holds `size` entries
\* removes the least recently used key and no other, and adds the new one;
\* and after size+1 requests have stored size+1 different keys one after the
\* other, the cache holds the keys of all but the first of them.
C16_EvictsLeastRecentlyUsed ==
  /\ [][\A r \in Requests :
          (/\ reqs[r].pc = "posted"
           /\ reqs'[r].status = 200
           /\ Len(handler.cache.items) = handler.cache.size
           /\ reqs[r].cacheKey \notin Keys(handler.cache))
            => /\ Keys(handler'.cache) =
                    (Keys(handler.cache) \ {LeastRecentlyUsed}) \cup {reqs[r].cacheKey}
               /\ Len(handler'.cache.items) = handler.cache.size]_vars
  /\ [](FilledInOrder =>
          Keys(handler.cache) = {reqs[r].cacheKey : r \in 2..(handler.cache.size + 1)})

\* In a cache of two, the first request stored a key, the second another, the
\* third was answered from the first key's entry and the fourth stored a third
\* key: the second key was evicted and the first, stored earlier but used
\* later, was kept.
C16_Witness ==
  /\ handler.cache.size = 2
  /\ {1, 2, 4} \subseteq Stored
  /\ 3 \in Hits
  /\ reqs[3].cacheKey = reqs[1].cacheKey
  /\ reqs[2].cacheKey \notin Keys(handler.cache)
  /\ Keys(handler.cache) = {reqs[1].cacheKey, reqs[4].cacheKey}
  /\ Cardinality({reqs[1].cacheKey, reqs[2].cacheKey, reqs[4].cacheKey}) = 3

\* C17: the cache never holds more entries than its size, no key twice, and
\* no step changes the size the handler was constructed with.
C17_CacheWithinCapacity ==
  /\ [](/\ Len(handler.cache.items) <= handler.cache.size
        /\ Cardinality(Keys(handler.cache)) = Len(handler.cache.items)
        /\ handler.cache.size \in CacheSizes)
  /\ [][handler'.cache.size = handler.cache.size]_vars

\* Two requests served at the same time have both stored a key of their own
\* in a cache of one.
C17_Witness ==
  /\ handler.cache.size = 1
  /\ Len(handler.cache.items) = 1
  /\ \E r1, r2 \in Stored :
       /\ reqs[r1].cacheKey # reqs[r2].cacheKey
       /\ reqs[r1].postedAt <= reqs[r2].postedAt
       /\ reqs[r2].slot <= reqs[r1].postedAt

\* The requests that have taken their token from the limiter.
Reserved == {r \in Requests : reqs[r].pc = "wait" \/ reqs[r].waits > 0}

\* The requests whose call to the engine has started.
CalledEngine == {r \in Requests : reqs[r].posts > 0}

Apart(t1, t2) == IF t1 < t2 THEN t2 - t1 ELSE t1 - t2

\* C18 as stated: no two calls to the engine start less than one interval
\* apart.
C18_Stated ==
  \A r1, r2 \in CalledEngine :
    r1 # r2 => Apart(reqs[r1].postedAt, reqs[r2].postedAt) >= RateLimit

\* What the limiter does keep: the tokens of any two cache-missed requests are
\* at least one interval apart, a request comes out of its wait no earlier than the time of its
\* token, and its call to the engine starts no earlier than that either.
C18_TokensOnePerInterval ==
  /\ \A r1, r2 \in Reserved :
       r1 # r2 => Apart(reqs[r1].slot, reqs[r2].slot) >= RateLimit
  /\ \A r \in Requests : reqs[r].waits > 0 => now >= reqs[r].slot
  /\ \A r \in CalledEngine : reqs[r].postedAt >= reqs[r].slot

\* Two requests missed the cache together; the second had to wait one
\* interval for its token and both have called the engine.
C18_Witness ==
  \E r1, r2 \in CalledEngine :
    /\ reqs[r1].slot = 0
    /\ reqs[r2].slot = RateLimit
    /\ reqs[r1].postedAt = 0
    /\ reqs[r2].postedAt = RateLimit

\* C19: a request waits on the limiter at most once, calls the engine at most
\* once and runs discovery at most once; a request answered 500 after its
\* call to the engine failed has made that one call and no other, and takes
\* no further step.
C19_NoRetry ==
  /\ [](\A r \in Requests :
          /\ reqs[r].waits <= 1
          /\ reqs[r].posts <= 1
          /\ reqs[r].loads <= 1
          /\ reqs[r].status = 500 => reqs[r].pc = "done")
  /\ [][\A r \in Requests :
          /\ (reqs[r].pc = "posted" /\ reqs'[r].pc # "posted") => reqs'[r].pc = "done"
          /\ reqs[r].pc = "done" => reqs'[r].pc = "done"]_vars

\* A request has waited once, called the engine once, and was answered 500
\* when that call failed.
C19_Witness ==
  \E r \in Requests :
    /\ reqs[r].pc = "done"
    /\ reqs[r].status = 500
    /\ reqs[r].waits = 1
    /\ reqs[r].posts = 1

\* The flows that are in the middle of writing the Directory.
Writers == {r \in Requests : reqs[r].pc = "populate"}

\* The flows that are running discovery: fetching the loader and the bundle,
\* or writing what they found.
Discovering == {r \in Requests : reqs[r].pc \in {"load", "populate"}}

\* C20: at no time are two flows running discovery, and the Directory is
\* never being written by two flows at the same time.
C20_DiscoveryAtMostOnce ==
  /\ Cardinality(Discovering) <= 1
  /\ Cardinality(Writers) <= 1

\* What the flows do keep: a flow runs discovery only after it found the
\* Directory empty, and writes nothing to it but the entries of the bundle.
C20_DirectoryHoldsBundle ==
  \A code \in DOMAIN JurisdictionsByCode :
    \/ JurisdictionsByCode[code] = BundleFederal
    \/ \E i \in 1..Len(BundleStates) :
         JurisdictionsByCode[code] = parseStateJurisdictions(BundleStates)[i]

\* ------------------------------------------------- claims on the Directory
\* The codes a discovery that succeeds delivers.
Delivered ==
  {BundleFederal.JurisdictionCode.Code}
    \cup {BundleStates[i].shortName : i \in 1..Len(BundleStates)}

NotFound(code) == <<"no jurisdiction found for code: ", code>>

\* The requests for which a builder has been built.
Built == {r \in Requests : reqs[r].builder # <<>>}

\* The Directory holds all that discovery delivers.
Full == DOMAIN JurisdictionsByCode = Delivered

\* C21: no caller of the lookup by code is told that a code which discovery
\* delivers was not found.
C21_NoPartialView ==
  \A r \in Built : \A code \in Delivered : reqs[r].builder.errorMessage # NotFound(code)

\* What the callers do keep: a code is resolved to the entry of the bundle.
C21_ResolvedFromBundle ==
  \A r \in Built :
    \A i \in 1..Len(reqs[r].builder.jurisdictions) :
      /\ reqs[r].builder.jurisdictions[i].JurisdictionCode.Code = reqs[r].params[1].state
      /\ \/ reqs[r].builder.jurisdictions[i] = BundleFederal
         \/ \E k \in 1..Len(BundleStates) :
              reqs[r].builder.jurisdictions[i] = parseStateJurisdictions(BundleStates)[k]

\* C22: no flow starts discovery after the discovery of another flow has
\* failed.
C22_NeverRetried == \A r \in Requests : ~reqs[r].afterFailure

\* What holds of the attempts: one flow runs discovery at most once.
C22_OncePerFlow == \A r \in Requests : reqs[r].loads <= 1

\* C23: while the Directory holds all that discovery delivers, no step
\* changes it and no flow that reads it starts discovery: only a flow that
\* found it empty before goes on with its own discovery, and writes what is
\* there already.
C23_ImmutableOncePopulated ==
  [][Full =>
       /\ JurisdictionsByCode' = JurisdictionsByCode
       /\ \A r \in Requests :
            /\ reqs'[r].pc = "load" => reqs[r].pc = "load"
            /\ reqs'[r].loads # reqs[r].loads => reqs[r].pc = "load"]_vars

\* With the Directory full, a request for an unknown code and a request for a
\* known one have both read it without a discovery of their own.
C23_Witness ==
  /\ Full
  /\ \E r1, r2 \in Built :
       /\ reqs[r1].loads = 1
       /\ reqs[r1].builder.jurisdictions # <<>>
       /\ reqs[r2].loads = 0
       /\ reqs[r2].params[1].state = "ZZ"
       /\ reqs[r2].builder.errorMessage = NotFound("ZZ")
       /\ reqs[r2].status = 500

\* The jurisdictions of the request a flow has sent to the engine.
SentJurisdictions(r) == reqs[r].request[1].Jurisdictions.LivedInJurisdictions

\* C24: a request that selects no state never runs discovery and is never at
\* a step of it; when it sends its request, the one jurisdiction of the
\* request is the US entry of the Directory if there is one and the fallback
\* otherwise, and the step leaves the Directory as it was.
C24_FederalWithoutDiscovery ==
  /\ [](\A r \in Parsed :
          reqs[r].params[1].state = ""
            => /\ reqs[r].loads = 0
               /\ reqs[r].pc \notin {"load", "populate", "lookup"}
               /\ ~reqs[r].afterFailure)
  /\ [][\A r \in Requests :
          (reqs[r].pc = "send" /\ reqs'[r].pc = "posted" /\ reqs[r].params[1].state = "")
            => /\ SentJurisdictions(r)' =
                    <<IF "US" \in DOMAIN JurisdictionsByCode
                        THEN JurisdictionsByCode["US"]
                        ELSE FallbackFederalJurisdiction>>
               /\ JurisdictionsByCode' = JurisdictionsByCode]_vars

\* After the discovery of one request has failed, a request with no state has
\* sent its request with the fallback.
C24_Witness ==
  \E r1, r2 \in Requests :
    /\ DiscoveryFailed(r1)
    /\ reqs[r1].status = 500
    /\ reqs[r2].pc = "posted"
    /\ reqs[r2].params[1].state = ""
    /\ reqs[r2].slot > reqs[r1].slot
    /\ SentJurisdictions(r2) = <<FallbackFederalJurisdiction>>

\* The errors discovery fails with.
DiscoveryErrors ==
  {LoadJurisdictions(<< >>, outcome).err : outcome \in DiscoveryOutcomes \ {"ok"}}

\* C25: the step in which the discovery of a flow fails sets the error of its
\* builder to the discovery error and adds no jurisdiction; such a flow never
\* calls the engine, and it is answered 500 with that error.
C25_DiscoveryFailurePropagates ==
  /\ [][\A r \in Requests :
          (reqs[r].pc = "load" /\ reqs'[r].pc # "load")
            => \/ reqs'[r].pc = "populate"
               \/ /\ reqs'[r].pc = "send"
                  /\ Error(reqs'[r].builder.errorMessage) \in DiscoveryErrors
                  /\ reqs'[r].builder.jurisdictions = <<>>
                  /\ JurisdictionsByCode' = JurisdictionsByCode]_vars
  /\ [](\A r \in Requests :
          DiscoveryFailed(r)
            => /\ reqs[r].builder.jurisdictions = <<>>
               /\ reqs[r].posts = 0
               /\ reqs[r].pc \in {"send", "done"}
               /\ reqs[r].pc = "done" =>
                    /\ reqs[r].status = 500
                    /\ reqs[r].err = Error(reqs[r].builder.errorMessage))

\* A request whose discovery failed has been answered 500 with the error of
\* the loader, without a call to the engine.
C25_Witness ==
  \E r \in Requests :
    /\ reqs[r].pc = "done"
    /\ reqs[r].loads = 1
    /\ reqs[r].status = 500
    /\ reqs[r].posts = 0
    /\ reqs[r].err = LoadJurisdictions(<< >>, "loader").err

\* The requests that have been answered.
Answered == {r \in Requests : reqs[r].pc = "done"}

C27_NegativeSalaryIs400 ==
  \A r \in Answered :
    (r \in Parsed /\ reqs[r].params[1].salary < 0) => reqs[r].status = 400

\* What a negative salary gets: the builder's error for it, no call to the
\* engine, and 500.
C27_NegativeSalaryIs500 ==
  \A r \in Answered :
    (r \in Parsed /\ reqs[r].params[1].salary < 0)
      => /\ reqs[r].status = 500
         /\ reqs[r].posts = 0
         /\ reqs[r].err = Error(<<"salary amount must be non-negative">>)

\* ------------------------------------------------ claims on the offline tool
\* The tool has run to its exit.
Exited == tool.pc = "exit"

\* The four pay-frequency codes the tool's documentation names.
DocumentedCodes ==
  {MonthlyPayFrequencyCode, BiWeeklyPayFrequencyCode, WeeklyPayFrequencyCode,
   SemiMonthlyPayFrequencyCode}

\* C28: when the pay-frequency flag is not given on the tool's command line,
\* the request the tool sends to the engine carries the code MONTHLY.
C28_DefaultIsMonthly ==
  (Exited /\ tool.cmd.payFrequency = <<>>)
    => \A i \in DOMAIN posted : posted[i].PayFrequencyCode = MonthlyPayFrequencyCode

\* What the tool sends without the flag: the zero PayFrequencyCode, which
\* WithPayFrequency stored in the builder in place of no code at all.
C28_DefaultIsZero ==
  (Exited /\ tool.cmd.payFrequency = <<>>)
    => /\ tool.payFrequency = ZeroPayFrequencyCode
       /\ \A i \in DOMAIN posted : posted[i].PayFrequencyCode = ZeroPayFrequencyCode
       /\ (tool.exit = <<0>> /\ ~tool.help) => Len(posted) = 1

\* C29: each of the names monthly, bi-weekly, weekly and semi-monthly, given
\* as the value of the pay-frequency flag, selects the pay frequency of that
\* name: for each of the four codes c, Set(String(c)) is c, and c is the code
\* of the request the tool sends.
C29_NameSelectsItsCode ==
  \A c \in DocumentedCodes :
    (Exited /\ tool.cmd.payFrequency = <<PayFrequencyCode_String(c)>>)
      => /\ tool.payFrequency = c
         /\ \A i \in DOMAIN posted : posted[i].PayFrequencyCode = c

\* What the names select: monthly, weekly and semi-monthly their own code,
\* bi-weekly the code MONTHLY; the bi-weekly code is selected by biweekly.
C29_AcceptedNames ==
  \A c \in DocumentedCodes :
    /\ (Exited /\ tool.cmd.payFrequency = <<PayFrequencyCode_String(c)>>)
         => tool.payFrequency = IF c = BiWeeklyPayFrequencyCode THEN MonthlyPayFrequencyCode
                                ELSE c
    /\ (Exited /\ tool.cmd.payFrequency = <<"biweekly">>)
         => /\ tool.payFrequency = BiWeeklyPayFrequencyCode
            /\ \A i \in DOMAIN posted : posted[i].PayFrequencyCode = BiWeeklyPayFrequencyCode

\* ---------------------------------------------- claims on the empty builder
\* C30: Send on a builder to which no salary and no hourly income source was
\* added does not deliver a request with an empty business-policy list to the
\* engine.
C30_NoIncomeNotSent ==
  (lastCall.op = "Send" /\ prev.salaries = <<>> /\ prev.hourlies = <<>>)
    => \/ posted = prevPosted
       \/ posted[Len(posted)].BusinessPolicies # <<>>

\* What Send does on such a builder: unless the builder holds an error, the
\* request is sent, with no business policy in it.
C30_EmptyRequestSent ==
  (lastCall.op = "Send" /\ prev.salaries = <<>> /\ prev.hourlies = <<>>
     /\ prev.errorMessage = <<>>)
    => /\ Len(posted) = Len(prevPosted) + 1
       /\ posted[Len(posted)].BusinessPolicies = <<>>

\* ------------------------------------------------- claims on the error drain
\* C31: a mutating call returns no error whatever it stored; HandleError
\* returns the stored error (nil when there is none) and clears it, leaving
\* every accumulated entry as it was.
C31_HandleErrorReturnsStored ==
  /\ lastCall.op \in MutatingCalls => lastCall.ret = NilError
  /\ lastCall.op = "HandleError" =>
       /\ lastCall.ret = IF prev.errorMessage = <<>> THEN NilError
                         ELSE Error(prev.errorMessage)
       /\ builder = [prev EXCEPT !.errorMessage = <<>>]

\* What holds of HandleError: it returns an error exactly when one was stored,
\* clears it and leaves the entries alone; a second HandleError returns nil;
\* a valid WithSalary right after it appends its policy and a Send right after
\* it hands a request to the engine.
C31_DrainsAndRevalidates ==
  /\ [](/\ lastCall.op \in MutatingCalls => lastCall.ret = NilError
        /\ lastCall.op = "HandleError" =>
             /\ lastCall.ret.isNil = (prev.errorMessage = <<>>)
             /\ ~lastCall.ret.isNil => lastCall.ret = Error(Errorf(prev.errorMessage))
             /\ builder = [prev EXCEPT !.errorMessage = <<>>])
  /\ [][lastCall.op = "HandleError" =>
          /\ lastCall'.op = "HandleError" => lastCall'.ret = NilError /\ builder' = builder
          /\ (lastCall'.op = "WithSalary" /\ lastCall'.args = <<1, AnnualSalaryFrequency>>)
               => OneAppended(builder'.salaries, builder.salaries)
          /\ lastCall'.op = "Send" => Len(posted') = Len(posted) + 1]_vars

\* C34: the builder's error is the first one raised since the last
\* HandleError: a mutating call on a builder that holds an error leaves the
\* error as it is, Send leaves it too, and the error Send returns is that
\* message, the one the first rejected call stored.
C34_SendReturnsFirstError ==
  /\ (lastCall.op \in MutatingCalls /\ prev.errorMessage # <<>>)
       => builder.errorMessage = prev.errorMessage
  /\ lastCall.op = "Send" => builder.errorMessage = prev.errorMessage
  /\ (lastCall.op = "Send" /\ prev.errorMessage # <<>>)
       => lastCall.ret.err.msg = prev.errorMessage

\* What holds of the first error: no call but HandleError replaces or clears
\* it, and Send returns an error whenever one is stored, formed from the
\* stored message by Errorf.
C34_FirstErrorSticks ==
  /\ [](/\ (lastCall.op \in MutatingCalls /\ prev.errorMessage # <<>>)
             => builder.errorMessage = prev.errorMessage
        /\ lastCall.op = "Send" => builder.errorMessage = prev.errorMessage
        /\ (lastCall.op = "Send" /\ prev.errorMessage # <<>>)
             => lastCall.ret.err = Error(Errorf(prev.errorMessage)))
  /\ [][(builder.errorMessage # <<>> /\ builder'.errorMessage # builder.errorMessage)
          => lastCall'.op = "HandleError" /\ builder'.errorMessage = <<>>]_vars

\* ------------------------------------------- claims on the federal injection
\* C35: the lived-in and worked-in lists of a request handed to the engine are
\* equal; they are the builder's selection in its order, as it is when one of
\* its jurisdictions has code US, and followed by one federal entry (the
\* Directory's US entry or the fallback) when none has.
C35_FederalInjectedOnlyWhenAbsent ==
  Sent =>
    LET selection == prev.jurisdictions
        lived == LastPosted.Jurisdictions.LivedInJurisdictions
        worked == LastPosted.Jurisdictions.WorkedInJurisdictions
    IN /\ lived = worked
       /\ HasFederal(selection) => lived = selection
       /\ ~HasFederal(selection) =>
            /\ OneAppended(lived, selection)
            /\ lived[Len(lived)] = GetFederalJurisdiction(JurisdictionsByCode)
            /\ lived[Len(lived)].JurisdictionCode.Code = "US"

\* Two requests sent: the first from an empty selection, with the federal
\* entry added; the second from a selection of a state and the federal
\* jurisdiction, with nothing added.
C35_Witness ==
  /\ Sent
  /\ Len(posted) = 2
  /\ Len(posted[1].Jurisdictions.LivedInJurisdictions) = 1
  /\ prev.jurisdictions = <<StateJurisdiction, FallbackFederalJurisdiction>>
  /\ LastPosted.Jurisdictions.LivedInJurisdictions = prev.jurisdictions

\* -------------------------------------------------- claims on LoadJurisdictions
\* The maps LoadJurisdictions may start from: the empty one, one with the
\* fallback alone, and the one a discovery has filled.
Directories ==
  {<< >>,
   [c \in {"US"} |-> FallbackFederalJurisdiction],
   LoadJurisdictions(<< >>, "ok").byCode}

\* C39: a LoadJurisdictions that fails at any of its five stages returns an
\* error and leaves the Directory as it was before the call, which is empty
\* when the Builder calls it; one that succeeds returns no error and leaves
\* every delivered code in the Directory.
C39_FailedLoadLeavesDirectory ==
  /\ [](\A m \in Directories, outcome \in DiscoveryOutcomes :
          LET load == LoadJurisdictions(m, outcome)
          IN IF outcome = "ok"
               THEN load.err.isNil /\ Delivered \subseteq DOMAIN load.byCode
             ELSE ~load.err.isNil /\ load.byCode = m)
  /\ [][(lastCall'.op = "WithJurisdictionsByCode" /\ builder.errorMessage = <<>>) =>
          IF Error(builder'.errorMessage) \in DiscoveryErrors
            THEN /\ JurisdictionsByCode = << >>
                 /\ JurisdictionsByCode' = JurisdictionsByCode
                 /\ builder'.jurisdictions = builder.jurisdictions
          ELSE DOMAIN JurisdictionsByCode' = Delivered]_vars

\* A lookup by code on an error-free builder whose discovery failed at the
\* last stage, the parsing of the federal jurisdiction: the Directory is
\* still empty.
C39_Witness ==
  /\ lastCall.op = "WithJurisdictionsByCode"
  /\ prev.errorMessage = <<>>
  /\ builder.errorMessage = LoadJurisdictions(<< >>, "federal").err.msg
  /\ JurisdictionsByCode = << >>

\* ---------------------------------------------------- claims on the limiter
\* The requests that are blocked in limiter.Wait: the time of their token has
\* not come.
Blocked == {r \in Requests : reqs[r].pc = "wait" /\ reqs[r].slot > now}

\* C32 as stated: a request in limiter.Wait has at most one interval to wait,
\* however many requests have missed the cache with it.
C32_WaitWithinOneInterval ==
  \A r \in Requests : reqs[r].pc = "wait" => reqs[r].slot - now <= RateLimit

\* C32: a request that enters limiter.Wait while n requests are blocked in it
\* is given a token at most n + 1 intervals away, and never one in the past;
\* a request that finds nobody blocked has at most one interval to wait.
C32_WaitWithinQueue ==
  [][\A r \in Requests :
       (reqs[r].pc = "reserve" /\ reqs'[r].pc = "wait")
         => /\ reqs'[r].slot >= now
            /\ reqs'[r].slot - now <= (Cardinality(Blocked) + 1) * RateLimit]_vars

\* Three requests have missed the cache at the same time: the first has its
\* token at once, the third has two intervals to wait.
C32_Witness ==
  /\ now = 0
  /\ \A r \in 1..3 : reqs[r].pc = "wait"
  /\ reqs[1].slot = 0
  /\ reqs[2].slot = RateLimit
  /\ reqs[3].slot = 2 * RateLimit

\* ----------------------------------------------- claims on the server's request
\* The requests that have handed a request to the engine and have no answer
\* of it yet.
Posted == {r \in Requests : reqs[r].pc = "posted"}

\* C33: the request the server sends for a query with a salary s of zero or
\* more, no state and any pay frequency has the federal jurisdiction alone
\* in its two lists, one business policy, which is the salary policy salary-1
\* of annual frequency and amount s, no pay line, and the pay frequency of
\* the query; no discovery has run for it.
C33_StatelessRequest ==
  \A r \in Posted :
    LET params == reqs[r].params[1]
        request == reqs[r].request[1]
    IN (params.state = "" /\ params.salary >= 0) =>
         /\ Len(request.Jurisdictions.LivedInJurisdictions) = 1
         /\ request.Jurisdictions.LivedInJurisdictions[1].JurisdictionCode.Code = "US"
         /\ request.Jurisdictions.WorkedInJurisdictions
              = request.Jurisdictions.LivedInJurisdictions
         /\ request.BusinessPolicies
              = <<[ID |-> "salary-1", Alias |-> AnnualSalaryFrequency, Label |-> "SALARY",
                   Inputs |-> <<[Name |-> "appliedPayPeriodAmount", Value |-> params.salary,
                                 Type |-> "amount"]>>]>>
         /\ request.AdditionalEarnings.PayLines = <<>>
         /\ request.PayFrequencyCode = params.payFrequency
         /\ reqs[r].loads = 0

\* Two requests are with the engine: one of salary zero paid bi-weekly, one of
\* salary one paid weekly.
C33_Witness ==
  \E r1, r2 \in Posted :
    /\ reqs[r1].params[1].salary = 0
    /\ reqs[r1].request[1].PayFrequencyCode = BiWeeklyPayFrequencyCode
    /\ reqs[r2].params[1].salary = Thousandth
    /\ reqs[r2].request[1].PayFrequencyCode = WeeklyPayFrequencyCode
    /\ reqs[r2].request[1].BusinessPolicies[1].Inputs[1].Value = Thousandth

\* ------------------------------------------------ claims on the cache's recency
\* The request r stored a new key right after the request before it was
\* answered from the cache under another key, and no later request has
\* touched the cache since.
StoredAfterHit(r) ==
  /\ r - 1 \in Hits
  /\ r \in Stored
  /\ reqs[r].cacheKey # reqs[r - 1].cacheKey
  /\ \A q \in (r + 1)..NumRequests : reqs[q].pc \in {"new", "get"}

\* C36 as stated: the key of a hit is not the key evicted by the next store
\* of a new key, whatever the size of the cache.
C36_HitKeySurvivesNextStore ==
  \A r \in 2..NumRequests :
    StoredAfterHit(r) => reqs[r - 1].cacheKey \in Keys(handler.cache)

\* C36: a hit moves its entry to the front of the cache and removes none; in
\* a cache of two entries or more, the key of a hit is still cached after the
\* next store of a new key.
C36_HitRefreshesRecency ==
  /\ [][\A r \in Requests :
          (reqs[r].pc = "get" /\ reqs'[r].status = 200)
            => /\ handler'.cache.items[1].key = reqs'[r].cacheKey
               /\ Keys(handler'.cache) = Keys(handler.cache)
               /\ Len(handler'.cache.items) = Len(handler.cache.items)]_vars
  /\ [](\A r \in 2..NumRequests :
          (StoredAfterHit(r) /\ handler.cache.size >= 2)
            => reqs[r - 1].cacheKey \in Keys(handler.cache))

\* A cache of two is full with the keys of the first two requests; the third
\* request is answered from the older of the two, and the store of the fourth
\* leaves that key behind the new one.
C36_Witness ==
  /\ handler.cache.size = 2
  /\ {1, 2} \subseteq Stored
  /\ reqs[1].cacheKey # reqs[2].cacheKey
  /\ StoredAfterHit(4)
  /\ reqs[3].cacheKey = reqs[1].cacheKey
  /\ handler.cache.items[1].key = reqs[4].cacheKey
  /\ handler.cache.items[2].key = reqs[3].cacheKey

\* ------------------------------------------------- claims on the limiter's tokens
\* The requests limiter.Wait has returned to, each with its token.
Granted == {r \in Requests : reqs[r].waits >= 1}

\* The requests that have called the engine.
Callers == {r \in Requests : reqs[r].posts >= 1}

\* The requests that have missed the cache and are past limiter.Wait.
PastWait ==
  {r \in Keyed : reqs[r].pc \notin {"get", "reserve", "wait"} /\ r \notin Hits}

\* C37: a request that has missed the cache has taken exactly one token when
\* it is past limiter.Wait, and no request has a builder before that; the
\* token was reserved on the handler's limiter; a request has at most one
\* token and calls the engine at most once and only with its token, so the
\* calls to the engine are never more than the tokens granted; a request
\* with a negative salary or an unknown state that has been answered has
\* taken its token and called no engine.
C37_TokenBeforeBuilder ==
  /\ \A r \in Requests :
       /\ r \in PastWait => reqs[r].waits = 1
       /\ r \in Built => reqs[r].waits = 1
       /\ r \in Granted =>
            /\ handler.limiter.last # <<>>
            /\ handler.limiter.last[1] >= reqs[r].slot
       /\ reqs[r].waits <= 1
       /\ reqs[r].posts <= reqs[r].waits
       /\ (r \in Answered /\ r \in Parsed /\ r \notin Hits
             /\ (reqs[r].params[1].salary < 0 \/ reqs[r].params[1].state = "ZZ"))
            => (reqs[r].waits = 1 /\ reqs[r].posts = 0 /\ reqs[r].status = 500)
  /\ Callers \subseteq Granted
  /\ Cardinality(Callers) <= Cardinality(Granted)

\* A request with a negative salary and a request with an unknown state have
\* both been answered 500: each has taken a token, the second an interval
\* after the first, and neither has called the engine.
C37_Witness ==
  \E r1, r2 \in Answered :
    /\ reqs[r1].params # <<>>
    /\ reqs[r2].params # <<>>
    /\ reqs[r1].params[1].salary < 0
    /\ reqs[r2].params[1].state = "ZZ"
    /\ reqs[r2].params[1].salary >= 0
    /\ reqs[r1].waits = 1
    /\ reqs[r2].waits = 1
    /\ reqs[r2].slot = reqs[r1].slot + RateLimit
    /\ reqs[r1].posts = 0
    /\ reqs[r2].posts = 0
    /\ Cardinality(Granted) = 2
    /\ Callers = {}

\* ------------------------------------------- claims on overlapping requests
\* Two requests for one key that have both missed the cache.
BothMissed(r1, r2) ==
  /\ r1 # r2
  /\ {r1, r2} \subseteq PastWait
  /\ reqs[r1].cacheKey = reqs[r2].cacheKey

\* The entries the cache holds for a key.
EntriesOf(key) == {i \in 1..Len(handler.cache.items) : handler.cache.items[i].key = key}

\* C38: of two requests for one key that have both missed the cache, each
\* has waited on the limiter for a token of its own, neither is answered by
\* the other, and each that is answered with an error-free builder has made
\* its own call to the engine; when both have stored, the cache holds one
\* entry for the key; and the step in which a request stores under a key
\* that is already cached puts its own response in the place of the entry.
C38_NotCoalesced ==
  /\ [](\A r1, r2 \in Requests :
          BothMissed(r1, r2) =>
            /\ reqs[r1].waits = 1 /\ reqs[r2].waits = 1
            /\ reqs[r1].slot # reqs[r2].slot
            /\ reqs[r1].servedBy # r2 /\ reqs[r2].servedBy # r1
            /\ (r1 \in Answered /\ reqs[r1].builder.errorMessage = <<>>) => reqs[r1].posts = 1
            /\ ({r1, r2} \subseteq Stored) =>
                 /\ Cardinality(EntriesOf(reqs[r1].cacheKey)) = 1
                 /\ EntryOf(handler.cache, reqs[r1].cacheKey).by \in {r1, r2})
  /\ [][\A r \in Requests :
          (/\ reqs[r].pc = "posted"
           /\ reqs'[r].status = 200
           /\ reqs[r].cacheKey \in Keys(handler.cache))
            => /\ handler'.cache.items[1] =
                    [key |-> reqs[r].cacheKey, value |-> Response, by |-> r]
               /\ Len(handler'.cache.items) = Len(handler.cache.items)
               /\ Keys(handler'.cache) = Keys(handler.cache)]_vars

\* Two requests for one key have both called the engine and stored; the one
\* that arrived first has stored last, and the one entry of the cache is its.
C38_Witness ==
  /\ BothMissed(1, 2)
  /\ {1, 2} \subseteq Stored
  /\ reqs[1].posts = 1
  /\ reqs[2].posts = 1
  /\ reqs[2].postedAt < reqs[1].postedAt
  /\ Len(handler.cache.items) = 1
  /\ handler.cache.items[1].by = 1

\* --------------------------------------------------- claims on termination
\* The requests that have arrived and have no answer yet.
InFlight == {r \in Requests : reqs[r].pc \notin {"new", "done"}}

\* C40: every request that has arrived is answered: the process never stops
\* with a request in flight that can take no further step.
C40_EveryRequestAnswered ==
  handler.fatal => InFlight = {}

\* What the stopped process leaves behind: no request is answered any more,
\* and the status of a request that was answered never changes.
C40_AnsweredOnce ==
  [][\A r \in Requests :
       /\ reqs[r].status # 0 => reqs'[r] = reqs[r]
       /\ handler.fatal => reqs'[r] = reqs[r]
       /\ reqs'[r].status \in {0, 200, 400, 500}]_vars

\* What holds of the limiter alone, under a fair scheduler, a clock that goes
\* on and an engine that always returns: every request that has arrived is
\* answered, whatever the number of requests waiting with it.
C40_LimiterNeverBlocksForever ==
  \A r \in Waiters : (reqs[r].pc # "new") ~> (reqs[r].pc = "done")

====
